---- MODULE Spec2Model ----
(***************************************************************************)
(* A model of the person-identity engine of glenglat (glenglat.py):        *)
(* the memoized person registry and find_person, the person-string parser  *)
(* (parse_person_string, parse_name_parts) and the name-splitting          *)
(* heuristics (infer_name_parts).                                          *)
(*                                                                         *)
(* Strings are sequences of one-character strings.  Python's None is the   *)
(* empty tuple inside one-slot tuples (<<>> is None, <<x>> is x) where the *)
(* value is a string or a dict, and the string "None" for registry keys.   *)
(***************************************************************************)
EXTENDS Integers, Sequences, FiniteSets, TLC

VARIABLES
  csv,       \* the rows of data/person.csv (external curated data, fixed for a run)
  cache,     \* functools.lru_cache of build_person_list: <<>> or <<people>>
  builds,    \* how many times the body of build_person_list has run
  call,      \* the last call: <<>> or <<[op, args]>>, args the (title, orcid, email) of find_person
  outcome,   \* what the last find_person call returned or raised
  printed,   \* what the last find_person call printed
  memo,      \* one earlier call and its outcome, remembered for comparison
  authors,   \* the author strings of data/source.csv, split on ' | '
  rendered,  \* render_author_list: <<>> before the call, then <<its outcome>>
  latin,     \* infer_name_parts: argument latin
  name,      \* infer_name_parts: argument name (<<>> is None)
  inferred,  \* infer_name_parts: <<>> before the call, then <<its outcome>>
  token,     \* parse_person_string: argument string
  parsed,    \* parse_person_string: <<>> before the call, then <<its outcome>>
  sources,   \* the rows of data/source.csv: their author and editor strings
  non_latin, \* render_sources_as_csl: argument non_latin
  csl,       \* render_sources_as_csl: <<>> before the call, then <<its outcome>>
  surname,   \* the sort key of render_author_list: latin family name of the person
  forename,  \* the sort key of render_author_list: latin given name of the person
  sortkey,   \* <<>> before the key is computed, then <<its outcome>>
  piped,     \* convert_people_to_english_list: argument people, pipe-delimited
  english,   \* <<>> before the call, then <<[fn, value]>> of the function called
  src_row,   \* convert_source_to_csl: argument source, one row of source.csv
  src_mode,  \* convert_source_to_csl: argument non_latin
  src_note,  \* convert_source_to_csl: argument zotero_citation_key
  src_csl,   \* convert_source_to_csl: <<>> before the call, then <<its outcome>>
  essd_name, \* render_name_for_essd: argument name in <<>>, <<>> when not called
  essd_token,\* format_author_for_essd: the person string parsed for it, in <<>>
  essd_out,  \* <<>> before the call, then <<the outcome of the function called>>
  ts_dfs,    \* interpolate_depth_timeseries: argument dfs, depth -> table
  ts_years,  \* interpolate_depth_timeseries: argument years
  ts_borehole, \* interpolate_depth_timeseries: argument borehole_id
  ts_out,    \* <<>> before the call, then <<its outcome>>
  sub_dfs,   \* build_subset_from_selection: argument dfs, the data tables
  sub_masks, \* build_subset_from_selection: argument masks (<<>> is missing or None)
  sub_secondary, \* build_subset_from_selection: argument secondary_sources
  sub_out,   \* <<>> before the call, then <<its outcome>>
  zen_server, \* the records on the Zenodo server
  zen_token, \* whether the access token is in the environment
  zen_call,  \* the last call of an operation on a draft, in <<>>
  zen_pc,    \* publish_to_zenodo: the call to make next
  zen_run    \* publish_to_zenodo: its local variables, calls and requests

findVars  == <<csv, cache, builds, call, outcome, printed, memo, authors, rendered>>
inferVars == <<latin, name, inferred>>
parseVars == <<token, parsed>>
cslVars   == <<sources, non_latin, csl>>
keyVars   == <<surname, forename, sortkey>>
joinVars  == <<piped, english>>
srcVars   == <<src_row, src_mode, src_note, src_csl>>
essdVars  == <<essd_name, essd_token, essd_out>>
depthVars == <<ts_dfs, ts_years, ts_borehole, ts_out>>
subsetVars == <<sub_dfs, sub_masks, sub_secondary, sub_out>>
zenVars   == <<zen_server, zen_token, zen_call, zen_pc, zen_run>>
moreVars  == <<srcVars, essdVars, depthVars, subsetVars, zenVars>>
vars      == <<csv, cache, builds, call, outcome, printed, memo, authors, rendered,
               latin, name, inferred, token, parsed, sources, non_latin, csl,
               surname, forename, sortkey, piped, english, moreVars>>

None == "None"

----------------------------------------------------------------------------
(* Bounds *)

\* rows of person.csv
MaxPeople == 2
\* the years of a depth time series are 1..MaxYear
MaxYear == 3
\* years interpolated in one call
MaxYears == 3
\* author strings of source.csv
MaxAuthors == 2
\* characters of a Latin-only name given to infer_name_parts
MaxLatinLen == 8
\* characters of an original-script name given to infer_name_parts
MaxNameLen == 3
\* words of the first phrase of a person string
MaxWords == 3
\* rows of source.csv
MaxSources == 2
\* the longest latin family name whose sort key is computed
MaxKeyLen == 2
\* the most names in one pipe-delimited string of people
MaxNames == 3

----------------------------------------------------------------------------
(* String helpers (Python str / re semantics on sequences of characters) *)

Slice(s, i, j) == IF i > j THEN <<>> ELSE SubSeq(s, i, j)

\* F applied to the value of v: a local variable that is assigned once
Let(v, F(_)) == CHOOSE out \in {F(x) : x \in {v}} : TRUE

\* the characters of a string that are in set S
HasAny(s, S) == \E i \in 1..Len(s) : s[i] \in S

\* str.split(' '): the words between single spaces, empty words kept
RECURSIVE Split(_)
Split(s) ==
  IF ~HasAny(s, {" "}) THEN <<s>>
  ELSE LET i == CHOOSE k \in 1..Len(s) : s[k] = " " /\ \A m \in 1..(k - 1) : s[m] # " "
       IN  <<Slice(s, 1, i - 1)>> \o Split(Slice(s, i + 1, Len(s)))

\* ' '.join(words)
RECURSIVE Join(_)
Join(words) ==
  IF words = <<>> THEN <<>>
  ELSE IF Len(words) = 1 THEN words[1]
  ELSE words[1] \o <<" ">> \o Join(Tail(words))

\* words[:-1]
ButLast(words) == Slice(words, 1, Len(words) - 1)

\* all strings of 1..n characters of alphabet A
Strings(A, n) == UNION {[1..k -> A] : k \in 1..n}

\* str.endswith('.')
EndsWithPeriod(w) == Len(w) > 0 /\ w[Len(w)] = "."

----------------------------------------------------------------------------
(* Characters.  A character is named by a string; the names below stand for   *)
(* one character each of the ranges the code tests.                           *)

LatinLetters == {"a", "b"}
\* [А-ЯЁа-яё]
CyrillicChars == {"ya"}
\* [\u4e00-\u9fff]
HanChars == {"han"}
\* [\uac00-\ud7af]
HangulChars == {"hg"}
\* [\u3040-\u30ff]
KanaChars == {"ka"}
\* a letter of none of these ranges (Arabic, Greek, ...)
OtherChars == {"ar"}
\* capital letters, and letters whose Unicode name has ' WITH ': a_ring is
\* 'LATIN SMALL LETTER A WITH RING ABOVE', A_ring its capital, q_hook is
\* 'LATIN SMALL LETTER Q WITH HOOK TAIL' and Q_hook its capital,
\* 'LATIN CAPITAL LETTER SMALL Q WITH HOOK TAIL'
CapitalLetters == {"A", "B", "Q"}
WithLetters == {"a_ring", "A_ring", "q_hook", "Q_hook"}

----------------------------------------------------------------------------
(* infer_name_parts *)

\* re.search(r'[^ \.]+ [^ \.]+(?: |$)', latin)
SearchConsecutiveWords(s) ==
  \E j \in 2..(Len(s) - 1) :
    /\ s[j] = " "
    /\ s[j - 1] \notin {" ", "."}
    /\ \E k \in (j + 1)..Len(s) :
         /\ \A m \in (j + 1)..k : s[m] \notin {" ", "."}
         /\ (k = Len(s) \/ s[k + 1] = " ")

InferReturn(value) == [kind |-> "return", error |-> None, value |-> value]
InferRaise(error) == [kind |-> "error", error |-> error, value |-> <<>>]

\* the dict returned for a split: 'name' and 'script' are absent for a Latin-only name
Parts(nameParts, latinParts, script) ==
  [name |-> nameParts, latin |-> latinParts, script |-> script]

LastWordFamily(words) == [given |-> Join(ButLast(words)), family |-> words[Len(words)]]
FirstWordFamily(words) == [family |-> words[1], given |-> words[2]]
FirstCharFamily(nm) == [family |-> Slice(nm, 1, 1), given |-> Slice(nm, 2, Len(nm))]

\* lines 363-371: name is None
infer_latin_only(lat) ==
  LET latin_words == Split(lat)
  IN  IF \/ (Len(latin_words) > 2 /\ SearchConsecutiveWords(lat))
         \/ EndsWithPeriod(latin_words[Len(latin_words)])
        THEN InferReturn(<<>>)
        ELSE InferReturn(<<Parts(<<>>, LastWordFamily(latin_words), None)>>)

\* A variant without the test for a single word.
infer_cyrillic_any_count(lat, nm) ==
  LET latin_words == Split(lat)
      words == Split(nm)
  IN  IF Len(words) # Len(latin_words)
        THEN InferRaise("Cyrillic name is ambiguous")
        ELSE InferReturn(<<Parts(<<LastWordFamily(words)>>, LastWordFamily(latin_words),
                                 "cyrillic")>>)

\* lines 374-381: a Cyrillic name
infer_cyrillic(lat, nm) ==
  LET latin_words == Split(lat)
      words == Split(nm)
  IN  IF Len(words) < 2 \/ Len(words) # Len(latin_words)
        THEN InferRaise("Cyrillic name is ambiguous")
        ELSE InferReturn(<<Parts(<<LastWordFamily(words)>>, LastWordFamily(latin_words),
                                 "cyrillic")>>)

FirstWordRestFamily(latin_words) ==
  [family |-> latin_words[1], given |-> Join(Tail(latin_words))]

\* A variant that does not count the words of the Latin form of a Chinese name.
infer_han_any_latin_count(lat, nm) ==
  LET latin_words == Split(lat)
      words == Split(nm)
  IN  IF Len(words) > 2 THEN InferReturn(<<>>)
      ELSE IF Len(words) = 2 THEN
        IF Len(latin_words) # 2 THEN InferReturn(<<>>)
        ELSE InferReturn(<<Parts(<<FirstWordFamily(words)>>,
                                 FirstWordFamily(latin_words), "kanji")>>)
      ELSE InferReturn(<<Parts(<<FirstCharFamily(nm)>>,
                               FirstWordRestFamily(latin_words), "chinese")>>)

\* lines 383-402: a name with CJK ideographs, Kanji (two words) or Chinese (one word)
infer_han(lat, nm) ==
  LET latin_words == Split(lat)
      words == Split(nm)
  IN  IF Len(words) > 2 THEN InferReturn(<<>>)
      ELSE IF Len(words) = 2 THEN
        IF Len(latin_words) # 2 THEN InferReturn(<<>>)
        ELSE InferReturn(<<Parts(<<FirstWordFamily(words)>>,
                                 FirstWordFamily(latin_words), "kanji")>>)
      ELSE IF Len(latin_words) # 2 THEN InferReturn(<<>>)
      ELSE InferReturn(<<Parts(<<FirstCharFamily(nm)>>,
                               FirstWordRestFamily(latin_words), "chinese")>>)

\* lines 404-411: a Hangul name
infer_hangul(lat, nm) ==
  LET latin_words == Split(lat)
      words == Split(nm)
  IN  IF Len(words) > 1 THEN InferReturn(<<>>)
      ELSE InferReturn(<<Parts(<<FirstCharFamily(nm)>>,
                               FirstWordRestFamily(latin_words), "hangul")>>)

\* A variant that takes the last word as the family name, as for Latin names.
infer_kana_last_word_family(lat, nm) ==
  LET latin_words == Split(lat)
      words == Split(nm)
  IN  IF Len(words) # 2 \/ Len(latin_words) # 2 THEN InferReturn(<<>>)
      ELSE InferReturn(<<Parts(<<LastWordFamily(words)>>,
                               LastWordFamily(latin_words), "kana")>>)

\* lines 413-420: a Kana name
infer_kana(lat, nm) ==
  LET latin_words == Split(lat)
      words == Split(nm)
  IN  IF Len(words) # 2 \/ Len(latin_words) # 2 THEN InferReturn(<<>>)
      ELSE InferReturn(<<Parts(<<FirstWordFamily(words)>>,
                               FirstWordFamily(latin_words), "kana")>>)

\* A variant that falls back to the Latin rule for a script it does not know.
infer_unsupported_guess(lat, nm) ==
  InferReturn(<<Parts(<<LastWordFamily(Split(nm))>>, LastWordFamily(Split(lat)), None)>>)

\* line 421: a name of no supported script
infer_unsupported(lat, nm) == InferReturn(<<>>)

\* infer_name_parts(latin, name), lines 361-421; nm is <<>> for None
infer_name_parts(lat, nm) ==
  IF nm = <<>> THEN infer_latin_only(lat)
  ELSE IF HasAny(nm[1], CyrillicChars) THEN infer_cyrillic(lat, nm[1])
  ELSE IF HasAny(nm[1], HanChars) THEN infer_han(lat, nm[1])
  ELSE IF HasAny(nm[1], HangulChars) THEN infer_hangul(lat, nm[1])
  ELSE IF HasAny(nm[1], KanaChars) THEN infer_kana(lat, nm[1])
  ELSE infer_unsupported(lat, nm[1])

----------------------------------------------------------------------------
(* parse_person_string *)

Digits == {"0", "1"}
\* \w: letters and digits of any script
WordChars ==
  LatinLetters \cup Digits \cup CyrillicChars \cup HanChars \cup HangulChars
  \cup KanaChars \cup OtherChars \cup CapitalLetters \cup WithLetters \cup {"q"}
\* the characters excluded from a phrase: ( ) [ ] |
Delimiters == {"(", ")", "[", "]", "|"}
\* \s
Whitespace == {" "}

\* phrase = outchar inchar*? outchar (lines 57-59)
IsPhrase(s) ==
  /\ Len(s) >= 2
  /\ s[1] \notin Delimiters \cup Whitespace
  /\ s[Len(s)] \notin Delimiters \cup Whitespace
  /\ ~HasAny(s, Delimiters)

\* ORCID_REGEX (line 53)
IsOrcid(s) ==
  /\ Len(s) = 19
  /\ \A i \in 1..18 : IF i \in {5, 10, 15} THEN s[i] = "-" ELSE s[i] \in Digits
  /\ s[19] \in Digits \cup {"X"}

\* the pieces of s between the occurrences of character c
RECURSIVE SplitOn(_, _)
SplitOn(s, c) ==
  IF ~HasAny(s, {c}) THEN <<s>>
  ELSE LET i == CHOOSE k \in 1..Len(s) : s[k] = c /\ \A m \in 1..(k - 1) : s[m] # c
       IN  <<Slice(s, 1, i - 1)>> \o SplitOn(Slice(s, i + 1, Len(s)), c)

AllIn(s, S) == \A i \in 1..Len(s) : s[i] \in S

\* EMAIL_REGEX (line 50): [\w\.\-]+@[\w\-]+(?:\.\w{2,})+
IsEmail(s) ==
  LET sides == SplitOn(s, "@")
  IN  /\ Len(sides) = 2
      /\ Len(sides[1]) >= 1 /\ AllIn(sides[1], WordChars \cup {".", "-"})
      /\ LET labels == SplitOn(sides[2], ".")
         IN  /\ Len(labels) >= 2
             /\ Len(labels[1]) >= 1 /\ AllIn(labels[1], WordChars \cup {"-"})
             /\ \A i \in 2..Len(labels) : Len(labels[i]) >= 2 /\ AllIn(labels[i], WordChars)

\* the first position at or after i of a character of S, or 0
FirstIn(s, i, S) ==
  IF \E k \in i..Len(s) : s[k] \in S
    THEN CHOOSE k \in i..Len(s) : s[k] \in S /\ \A m \in i..(k - 1) : s[m] \notin S
    ELSE 0

NoGroups == <<>>
Groups(title, nm, lat, orcid, email) ==
  <<[title |-> title, name |-> nm, latin |-> lat, orcid |-> orcid, email |-> email]>>

\* the optional ' (orcid|email)' that ends PERSON_REGEX, from position i on
IdentifierMatch(s, i) ==
  IF i > Len(s) THEN <<[orcid |-> <<>>, email |-> <<>>]>>
  ELSE IF /\ Len(s) >= i + 2
          /\ s[i] = " " /\ s[i + 1] = "(" /\ s[Len(s)] = ")"
    THEN LET id == Slice(s, i + 2, Len(s) - 1)
         IN  IF IsOrcid(id) THEN <<[orcid |-> <<id>>, email |-> <<>>]>>
             ELSE IF IsEmail(id) THEN <<[orcid |-> <<>>, email |-> <<id>>]>>
             ELSE <<>>
    ELSE <<>>

\* re.fullmatch(PERSON_REGEX, string).groupdict() (lines 61-64), <<>> for no match.
\* A phrase holds no delimiter, so the name ends before the first delimiter and the
\* latin form is what lies between the first '[' and the next delimiter, a ']'.
PersonMatch(s) ==
  LET f == FirstIn(s, 1, Delimiters)
  IN  IF f = 0
        THEN IF IsPhrase(s) THEN Groups(s, s, <<>>, <<>>, <<>>) ELSE NoGroups
      ELSE IF f < 3 \/ s[f - 1] # " " \/ ~IsPhrase(Slice(s, 1, f - 2)) THEN NoGroups
      ELSE LET nm == Slice(s, 1, f - 2)
           IN  IF s[f] = "["
                 THEN LET g == FirstIn(s, f + 1, Delimiters)
                      IN  IF g = 0 \/ s[g] # "]" \/ ~IsPhrase(Slice(s, f + 1, g - 1))
                            THEN NoGroups
                          ELSE LET id == IdentifierMatch(s, g + 1)
                               IN  IF id = <<>> THEN NoGroups
                                   ELSE Groups(Slice(s, 1, g), nm, <<Slice(s, f + 1, g - 1)>>,
                                               id[1].orcid, id[1].email)
               ELSE IF s[f] = "("
                 THEN LET id == IdentifierMatch(s, f - 1)
                      IN  IF id = <<>> THEN NoGroups
                          ELSE Groups(nm, nm, <<>>, id[1].orcid, id[1].email)
               ELSE NoGroups

\* re.sub(r'\s+', ' ', string.strip())
RECURSIVE SqueezeRuns(_)
SqueezeRuns(s) ==
  IF Len(s) < 2 THEN s
  ELSE IF s[1] \in Whitespace /\ s[2] \in Whitespace THEN SqueezeRuns(Tail(s))
  ELSE <<IF s[1] \in Whitespace THEN " " ELSE s[1]>> \o SqueezeRuns(Tail(s))

RECURSIVE Strip(_)
Strip(s) ==
  IF s = <<>> THEN s
  ELSE IF s[1] \in Whitespace THEN Strip(Tail(s))
  ELSE IF s[Len(s)] \in Whitespace THEN Strip(Slice(s, 1, Len(s) - 1))
  ELSE s

squeeze_whitespace(s) == SqueezeRuns(Strip(s))

\* re.sub(r'{|}', '', string)
RECURSIVE strip_curly_braces(_)
strip_curly_braces(s) ==
  IF s = <<>> THEN s
  ELSE IF s[1] \in {"{", "}"} THEN strip_curly_braces(Tail(s))
  ELSE <<s[1]>> \o strip_curly_braces(Tail(s))

\* str.startswith(pat, i - 1)
MatchesAt(s, i, pat) ==
  /\ i + Len(pat) - 1 <= Len(s)
  /\ \A k \in 1..Len(pat) : s[i + k - 1] = pat[k]

\* str.replace(pat, ''): every occurrence of pat removed, left to right
RECURSIVE RemoveAll(_, _)
RemoveAll(s, pat) ==
  IF s = <<>> THEN s
  ELSE IF MatchesAt(s, 1, pat) THEN RemoveAll(Slice(s, Len(pat) + 1, Len(s)), pat)
  ELSE <<s[1]>> \o RemoveAll(Tail(s), pat)

\* the start and end of re.search(r'{(?P<family>[^}]+)}', name), <<>> for no match
BraceMatch(s) ==
  LET starts == {i \in 1..Len(s) :
                   /\ s[i] = "{"
                   /\ i + 1 <= Len(s) /\ s[i + 1] # "}"
                   /\ \E j \in (i + 2)..Len(s) : s[j] = "}"}
  IN  IF starts = {} THEN <<>>
      ELSE LET i == CHOOSE k \in starts : \A m \in starts : k <= m
               j == FirstIn(s, i + 2, {"}"})
           IN  <<i, j>>

\* A variant that keeps the surrounding whitespace of the given name.
parse_name_parts_unsqueezed(nm) ==
  LET m == BraceMatch(nm)
  IN  IF m = <<>> THEN <<>>
      ELSE <<[family |-> Slice(nm, m[1] + 1, m[2] - 1),
              given  |-> RemoveAll(nm, Slice(nm, m[1], m[2]))]>>

\* parse_name_parts (lines 463-470), <<>> for None
parse_name_parts(nm) ==
  LET m == BraceMatch(nm)
  IN  IF m = <<>> THEN <<>>
      ELSE <<[family |-> Slice(nm, m[1] + 1, m[2] - 1),
              given  |-> squeeze_whitespace(RemoveAll(nm, Slice(nm, m[1], m[2])))]>>

OrcidUrlPrefix == <<"h", "t", "t", "p", "s", ":", "/", "/", "o", "r", "c", "i", "d", ".", "o", "r", "g", "/">>

HasBrace(s) == HasAny(s, {"{", "}"})

ParseReturn(groups) == [kind |-> "return", error |-> None, value |-> <<groups>>]
ParseRaise(error) == [kind |-> "error", error |-> error, value |-> <<>>]

NameDict(full, parts) == [name |-> full, family |-> parts.family, given |-> parts.given]

\* lines 522-525: braces stripped from the title, the ORCID expanded
Finish(groups, lat, nm) ==
  ParseReturn([title |-> strip_curly_braces(groups.title),
               name  |-> nm,
               latin |-> lat,
               orcid |-> IF groups.orcid # <<>>
                           THEN <<OrcidUrlPrefix \o groups.orcid[1]>> ELSE <<>>,
               email |-> groups.email])

\* A variant that accepts a side without curly braces when the other side has them.
braced_names_unchecked(groups, lat, nm) ==
  LET sideOf(x) == IF parse_name_parts(x) = <<>>
                     THEN [name |-> x, family |-> x, given |-> <<>>]
                     ELSE NameDict(strip_curly_braces(x), parse_name_parts(x)[1])
  IN  Finish(groups, sideOf(lat), IF nm = <<>> THEN <<>> ELSE <<sideOf(nm[1])>>)

\* lines 502-512: the title has curly braces; latin first, then name
braced_names(groups, lat, nm) ==
  IF ~HasBrace(lat) THEN ParseRaise("Curly braces missing from original or latin name")
  ELSE IF parse_name_parts(lat) = <<>>
    THEN ParseRaise("Failed to parse name parts from curly braces")
  ELSE IF nm # <<>> /\ ~HasBrace(nm[1])
    THEN ParseRaise("Curly braces missing from original or latin name")
  ELSE IF nm # <<>> /\ parse_name_parts(nm[1]) = <<>>
    THEN ParseRaise("Failed to parse name parts from curly braces")
  ELSE Finish(groups,
              NameDict(strip_curly_braces(lat), parse_name_parts(lat)[1]),
              IF nm = <<>> THEN <<>>
              ELSE <<NameDict(strip_curly_braces(nm[1]), parse_name_parts(nm[1])[1])>>)

\* lines 513-519: no curly braces, the split is inferred
inferred_names(groups, lat, nm) ==
  LET inf == infer_name_parts(lat, nm)
  IN  IF inf.kind = "error" THEN ParseRaise(inf.error)
      ELSE IF inf.value = <<>> THEN ParseRaise("Family name is ambiguous")
      ELSE Finish(groups,
                  NameDict(lat, inf.value[1].latin),
                  IF nm = <<>> THEN <<>> ELSE <<NameDict(nm[1], inf.value[1].name[1])>>)

\* A variant that takes the first phrase as the Latin form even when a bracket follows.
NormalizeSidesSwapped(groups) ==
  [groups EXCEPT !.latin = groups.name,
                 !.name = IF groups.latin = <<>> THEN <<>> ELSE groups.latin]

\* lines 497-500: without a bracketed form the name is the Latin form
NormalizeSides(groups) ==
  IF groups.latin = <<>>
    THEN [groups EXCEPT !.latin = groups.name, !.name = <<>>]
    ELSE [groups EXCEPT !.latin = groups.latin[1], !.name = <<groups.name>>]

\* parse_person_string (lines 493-525)
parse_person_string(string) ==
  LET match == PersonMatch(string)
  IN  IF match = <<>> THEN ParseRaise("Invalid person string")
      ELSE LET groups == NormalizeSides(match[1])
           IN  IF HasBrace(groups.title)
                 THEN braced_names(groups, groups.latin, groups.name)
                 ELSE inferred_names(groups, groups.latin, groups.name)

----------------------------------------------------------------------------
(* Person registry: build_person_list and find_person *)

\* str of a sequence of characters: the keys of the registry are strings
RECURSIVE Str(_)
Str(s) == IF s = <<>> THEN "" ELSE s[1] \o Str(Tail(s))

\* the titles, emails and ORCIDs of person.csv and of the calls
Title1 == "a b"
Title2 == "b a"
Email1 == "a@b.ab"
Orcid1 == "https://orcid.org/0000-0001-0000-000X"
Orcid2 == "https://orcid.org/0000-0001-0000-0001"

Titles == {Title1, Title2}
Emails == {Email1}
Orcids == {Orcid1, Orcid2}

\* person.csv cells: a list cell is NA (<<>>) or a non-empty ' | ' separated list
ListCells(S) == {<<>>} \cup {<<x>> : x \in SUBSET S \ {{}}}

\* the titles cells: no title, one title, two titles
TitleCells == {c \in ListCells(Titles) : c = <<>> \/ Title1 \in c[1]}

\* latin_name, latin_family_name and name (<<>> is NA) of row i
LatinNameOf(i) == IF i % 2 = 1 THEN <<"a", " ", "b">> ELSE <<"b", " ", "a_ring">>
LatinFamilyOf(i) == <<"b">>
NameOf(i) == IF i % 2 = 0 THEN <<<<"ya", " ", "ya">>>> ELSE <<>>

CsvRows(i) ==
  [titles : TitleCells, emails : ListCells(Emails), orcid : Orcids \cup {None},
   latin_name : {LatinNameOf(i)}, latin_family_name : {LatinFamilyOf(i)},
   name : {NameOf(i)}]

CsvFiles ==
  UNION {{f \in [1..n -> UNION {CsvRows(i) : i \in 1..n}] : \A i \in 1..n : f[i] \in CsvRows(i)}
         : n \in 0..MaxPeople}

\* rows with at most one title, no email, and the first ORCID or none
SmallRow(row) ==
  /\ row.titles \in {<<>>, <<{Title1}>>}
  /\ row.emails = <<>>
  /\ row.orcid # Orcid2

SmallCsvFiles == {f \in CsvFiles : \A i \in 1..Len(f) : SmallRow(f[i])}

\* the end of family in s at position i, followed by a space or the end: (?= |$)
FamilyAt(s, i, family) ==
  /\ i >= 1 /\ MatchesAt(s, i, family)
  /\ (i + Len(family) > Len(s) \/ s[i + Len(family)] = " ")

\* re.sub(r'( |^){family}(?: |$)', r'\1', name) from position i on: every match,
\* left to right, replaced by its leading space (family holds letters and spaces)
RECURSIVE SubFamily(_, _, _)
SubFamily(s, i, family) ==
  IF i > Len(s) THEN <<>>
  ELSE LET after(j) == IF j + Len(family) <= Len(s) THEN j + Len(family) + 1
                       ELSE j + Len(family)
       IN  IF s[i] = " " /\ FamilyAt(s, i + 1, family)
             THEN <<" ">> \o SubFamily(s, after(i + 1), family)
           ELSE IF i = 1 /\ FamilyAt(s, 1, family)
             THEN SubFamily(s, after(1), family)
           ELSE <<s[i]>> \o SubFamily(s, i + 1, family)

\* re.search(r'( |^){family}(?: |$)', name)
FamilyFound(nm, family) ==
  \E i \in 1..Len(nm) : FamilyAt(nm, i, family) /\ (i = 1 \/ nm[i - 1] = " ")

\* extract_given_name (lines 716-719) when the family name is found in the name
extract_given_name(nm, family) == Strip(SubFamily(nm, 1, family))

\* str.upper() of a character
UpperChar(c) ==
  CASE c = "a" -> "A" [] c = "b" -> "B" [] c = "q" -> "Q"
    [] c = "a_ring" -> "A_ring" [] c = "q_hook" -> "Q_hook"
    [] OTHER -> c

Upper(s) == [i \in 1..Len(s) |-> UpperChar(s[i])]

\* the starts of the matches of re.findall(r'(^| |\[){family}(?= |\]|$)', name),
\* from position i on
RECURSIVE FamilyStarts(_, _, _)
FamilyStarts(s, i, family) ==
  IF i > Len(s) THEN <<>>
  ELSE LET ends(j) == /\ MatchesAt(s, j, family)
                      /\ (j + Len(family) > Len(s) \/ s[j + Len(family)] \in {" ", "]"})
       IN  IF i = 1 /\ ends(1)
             THEN <<1>> \o FamilyStarts(s, 1 + Len(family), family)
           ELSE IF s[i] \in {" ", "["} /\ ends(i + 1)
             THEN <<i + 1>> \o FamilyStarts(s, i + 1 + Len(family), family)
           ELSE FamilyStarts(s, i + 1, family)

\* uppercase_family_name (lines 735-739): <<>> when it raises, else <<the string>>
uppercase_family_name(nm, family) ==
  LET matches == FamilyStarts(nm, 1, family)
  IN  IF Len(matches) # 1 THEN <<>>
      ELSE LET i == matches[1]
           IN  <<Slice(nm, 1, i - 1) \o Upper(family)
                 \o Slice(nm, i + Len(family), Len(nm))>>

\* unicodedata.lookup of the part of a character's name before ' WITH ':
\* <<the character>>, or <<>> for KeyError (lines 754-761)
LookupBase(c) ==
  CASE c = "a_ring" -> <<"a">> [] c = "A_ring" -> <<"A">>
    [] c = "q_hook" -> <<"q">> [] c = "Q_hook" -> <<>>

\* replace_char (lines 753-762)
replace_char(c) ==
  IF c \in WithLetters /\ LookupBase(c) # <<>> THEN LookupBase(c)[1] ELSE c

\* strip_diacritics (line 764)
strip_diacritics(s) == [i \in 1..Len(s) |-> replace_char(s[i])]

\* build_person_list body: one person dict per row
PersonOfRow(row) ==
  [titles |-> IF row.titles = <<>> THEN {} ELSE row.titles[1],
   emails |-> IF row.emails = <<>> THEN {} ELSE row.emails[1],
   orcid  |-> row.orcid,
   latin  |-> [name   |-> row.latin_name,
               family |-> row.latin_family_name,
               given  |-> extract_given_name(row.latin_name, row.latin_family_name)],
   name   |-> row.name]

build_person_list_body(rows) == [i \in 1..Len(rows) |-> PersonOfRow(rows[i])]

\* @functools.lru_cache(maxsize=1) around build_person_list()
build_person_list(c, rows, n) ==
  IF c # <<>>
    THEN [people |-> c[1], cache |-> c, builds |-> n]
    ELSE LET p == build_person_list_body(rows)
         IN  [people |-> p, cache |-> <<p>>, builds |-> n + 1]

\* the condition of find_person's loop (lines 680-684)
PersonMatches(person, title, orcid, email) ==
  \/ (orcid # None /\ person.orcid = orcid)
  \/ (email # None /\ email \in person.emails)
  \/ (title # None /\ title \in person.titles)

\* the indices of the matching persons, in list order
MatchIndices(people, title, orcid, email) ==
  {i \in 1..Len(people) : PersonMatches(people[i], title, orcid, email)}

\* result = {key: person[key] for key in ('latin', 'name', 'orcid')}: a new dict
ResultOf(person) == [latin |-> person.latin, name |-> person.name, orcid |-> person.orcid]

\* A variant that keeps the adopted ORCID on the registry entry (result aliasing person).
AdoptOrcidPersisting(people, i, result, orcid) ==
  [result |-> [result EXCEPT !.orcid = orcid],
   people |-> [people EXCEPT ![i].orcid = orcid],
   printed |-> <<[event |-> "ORCID missing", orcid |-> orcid]>>]

\* lines 699-701: print, then result['orcid'] = orcid (result is not the registry entry)
AdoptOrcid(people, i, result, orcid) ==
  [result |-> [result EXCEPT !.orcid = orcid],
   people |-> people,
   printed |-> <<[event |-> "ORCID missing", orcid |-> orcid]>>]

Raised(error, people) ==
  [kind |-> "error", error |-> error, result |-> <<>>, people |-> people, printed |-> <<>>]

Returned(result, people, out) ==
  [kind |-> "return", error |-> None, result |-> result, people |-> people, printed |-> out]

\* A variant that returns the first of several matches.
find_person_first_match(people, title, orcid, email) ==
  LET matches == MatchIndices(people, title, orcid, email)
  IN  IF matches = {} THEN Returned(<<>>, people, <<>>)
      ELSE LET i == CHOOSE m \in matches : \A k \in matches : m <= k
           IN  Returned(<<ResultOf(people[i])>>, people, <<>>)

\* A variant that does not compare the ORCIDs.
find_person_no_orcid_check(people, title, orcid, email) ==
  LET matches == MatchIndices(people, title, orcid, email)
  IN  IF matches = {} THEN Returned(<<>>, people, <<>>)
      ELSE IF Cardinality(matches) > 1 THEN Raised("Multiple person matches", people)
      ELSE LET i == CHOOSE m \in matches : TRUE
           IN  Returned(<<ResultOf(people[i])>>, people, <<>>)

\* find_person (lines 677-702) on the built person list
find_person(people, title, orcid, email) ==
  LET matches == MatchIndices(people, title, orcid, email)
  IN  IF matches = {} THEN Returned(<<>>, people, <<>>)
      ELSE IF Cardinality(matches) > 1 THEN Raised("Multiple person matches", people)
      ELSE LET i == CHOOSE m \in matches : TRUE
               result == ResultOf(people[i])
           IN  IF orcid # None
                 THEN IF result.orcid # None /\ result.orcid # orcid
                        THEN Raised("ORCID mismatch", people)
                        ELSE IF result.orcid = None
                          THEN LET a == AdoptOrcid(people, i, result, orcid)
                               IN  Returned(<<a.result>>, a.people, a.printed)
                          ELSE Returned(<<result>>, people, <<>>)
                 ELSE Returned(<<result>>, people, <<>>)

NoArgs == [title |-> None, orcid |-> None, email |-> None]

CallArgs == [title : Titles \cup {None}, orcid : Orcids \cup {None}, email : Emails \cup {None}]

\* what a caller observes of a call: the error, or None, or the returned values
Observed(r) == [kind |-> r.kind, error |-> r.error, result |-> r.result]

\* an optional string of the parsed person as a key of find_person
KeyOf(x) == IF x = <<>> THEN None ELSE Str(x[1])

\* pandas drop_duplicates, dict.fromkeys: the first occurrence of each element
RECURSIVE DropDuplicates(_)
DropDuplicates(xs) ==
  IF xs = <<>> THEN <<>>
  ELSE LET rest == DropDuplicates(ButLast(xs))
           x == xs[Len(xs)]
       IN  IF \E i \in 1..Len(rest) : rest[i] = x THEN rest ELSE Append(rest, x)

\* {**person, **found}: title and email as parsed, latin, name and orcid as
\* found; 'string' remembers the author string the person comes from
Merged(person, found, string) ==
  [title |-> person.title, email |-> person.email,
   latin |-> found.latin, name |-> found.name, orcid |-> found.orcid,
   string |-> string]

\* A variant that collects a string that does not parse with the missing people and
\* goes on with the next string.
RECURSIVE RenderLoopCollecting(_, _, _)
RenderLoopCollecting(strings, rows, loop) ==
  Let(loop, LAMBDA acc :
    IF strings = <<>> \/ acc.error # None THEN acc
    ELSE Let(Head(strings), LAMBDA string :
         Let(parse_person_string(string), LAMBDA p :
           IF p.kind = "error"
             THEN RenderLoopCollecting(Tail(strings), rows,
                [acc EXCEPT !.missing = Append(acc.missing, string)])
             ELSE
         Let(p.value[1], LAMBDA person :
         Let(build_person_list(acc.cache, rows, acc.builds), LAMBDA b :
         Let(find_person(b.people, Str(person.title), KeyOf(person.orcid),
                         KeyOf(person.email)), LAMBDA r :
           RenderLoopCollecting(Tail(strings), rows,
             [cache   |-> <<r.people>>,
              builds  |-> b.builds,
              people  |-> IF r.result # <<>>
                            THEN Append(acc.people, Merged(person, r.result[1], string))
                            ELSE acc.people,
              missing |-> IF r.kind = "return" /\ r.result = <<>>
                            THEN Append(acc.missing, string) ELSE acc.missing,
              printed |-> acc.printed \o r.printed,
              error   |-> r.error,
              failed  |-> IF r.kind = "error" THEN <<string>> ELSE <<>>])))))))

\* render_author_list, lines 777-788: the loop over the author strings.  acc is
\* the state of the loop: the lru_cache, the build count, people, missing, what was
\* printed, and the exception that ended the loop (None while it runs).
RECURSIVE RenderLoop(_, _, _)
RenderLoop(strings, rows, loop) ==
  Let(loop, LAMBDA acc :
    IF strings = <<>> \/ acc.error # None THEN acc
    ELSE Let(Head(strings), LAMBDA string :
         Let(parse_person_string(string), LAMBDA p :
           IF p.kind = "error"
             THEN [acc EXCEPT !.error = p.error, !.failed = <<string>>]
             ELSE
         Let(p.value[1], LAMBDA person :
         Let(build_person_list(acc.cache, rows, acc.builds), LAMBDA b :
         Let(find_person(b.people, Str(person.title), KeyOf(person.orcid),
                         KeyOf(person.email)), LAMBDA r :
           RenderLoop(Tail(strings), rows,
             [cache   |-> <<r.people>>,
              builds  |-> b.builds,
              people  |-> IF r.result # <<>>
                            THEN Append(acc.people, Merged(person, r.result[1], string))
                            ELSE acc.people,
              missing |-> IF r.kind = "return" /\ r.result = <<>>
                            THEN Append(acc.missing, string) ELSE acc.missing,
              printed |-> acc.printed \o r.printed,
              error   |-> r.error,
              failed  |-> IF r.kind = "error" THEN <<string>> ELSE <<>>])))))))

\* the code point of a character, for the comparison of strings
CodePoint(c) ==
  CASE c = " " -> 32 [] c = "." -> 46 [] c = "A" -> 65 [] c = "B" -> 66 [] c = "Q" -> 81
    [] c = "a" -> 97 [] c = "b" -> 98 [] c = "q" -> 113
    [] c = "A_ring" -> 197 [] c = "a_ring" -> 229 [] c = "Q_hook" -> 586 [] c = "q_hook" -> 587

\* x < y for Python strings
StrLess(x, y) ==
  \E k \in 1..(Len(y)) :
    /\ k <= Len(x) + 1
    /\ \A m \in 1..(k - 1) : x[m] = y[m]
    /\ (k = Len(x) + 1 \/ CodePoint(x[k]) < CodePoint(y[k]))

\* the key of sorted (lines 793-796)
SortKey(person) ==
  <<Upper(strip_diacritics(person.latin.family)), Upper(strip_diacritics(person.latin.given))>>

\* a < b for the tuples of two strings
KeyLess(a, b) == StrLess(a[1], b[1]) \/ (a[1] = b[1] /\ StrLess(a[2], b[2]))

\* A variant that sorts by the family name alone, later strings first among equals.
RECURSIVE sorted_unstable(_)
sorted_unstable(people) ==
  IF people = <<>> THEN <<>>
  ELSE Let(sorted_unstable(ButLast(people)), LAMBDA rest :
       Let(people[Len(people)], LAMBDA x :
       Let(Cardinality({i \in 1..Len(rest) : StrLess(SortKey(rest[i])[1], SortKey(x)[1])}), LAMBDA n :
         Slice(rest, 1, n) \o <<x>> \o Slice(rest, n + 1, Len(rest)))))

\* sorted(people, key=...) (line 793): a stable sort, each person inserted after
\* the persons before it whose key is not greater
RECURSIVE sorted(_)
sorted(people) ==
  IF people = <<>> THEN <<>>
  ELSE Let(sorted(ButLast(people)), LAMBDA rest :
       Let(people[Len(people)], LAMBDA x :
       Let(Cardinality({i \in 1..Len(rest) : ~KeyLess(SortKey(x), SortKey(rest[i]))}), LAMBDA n :
         Slice(rest, 1, n) \o <<x>> \o Slice(rest, n + 1, Len(rest)))))

\* lines 800-802: the string of one person, <<>> when uppercase_family_name raises
FormatPerson(person) ==
  LET u == uppercase_family_name(person.latin.name, person.latin.family)
  IN  IF u = <<>> THEN <<>>
      ELSE IF person.name # <<>>
        THEN <<person.name[1] \o <<" ", "[">> \o u[1] \o <<"]">>>>
        ELSE u

\* A variant that keeps the duplicates.
drop_duplicate_strings_kept(strings) == strings

\* list(dict.fromkeys(strings)) (line 805)
drop_duplicate_strings(strings) == DropDuplicates(strings)

RenderReturn(strings, people) ==
  [kind |-> "return", error |-> None, missing |-> <<>>, failed |-> <<>>,
   strings |-> strings, people |-> people]

RenderRaise(error, missing, failed) ==
  [kind |-> "error", error |-> error, missing |-> missing, failed |-> failed,
   strings |-> <<>>, people |-> <<>>]

\* A variant that reports the first missing person only.
missing_people_first_only(missing) ==
  IF missing = <<>> THEN <<>>
  ELSE <<RenderRaise("People not found", <<missing[1]>>, <<>>)>>

\* lines 789-791: the error that lists the missing people, <<>> when there are none
missing_people(missing) ==
  IF missing = <<>> THEN <<>>
  ELSE <<RenderRaise("People not found", missing, <<>>)>>

\* render_author_list (lines 770-805) on the exploded author strings: the outcome,
\* with the lru_cache, the build count and what was printed
render_author_list(author, rows, c, n) ==
  Let(DropDuplicates(author), LAMBDA strings :
  Let(RenderLoop(strings, rows,
        [cache |-> c, builds |-> n, people |-> <<>>, missing |-> <<>>,
         printed |-> <<>>, error |-> None, failed |-> <<>>]), LAMBDA acc :
  Let(sorted(acc.people), LAMBDA people :
  Let([i \in 1..Len(people) |-> FormatPerson(people[i])], LAMBDA formatted :
    [out |->
       IF acc.error # None THEN RenderRaise(acc.error, <<>>, acc.failed)
       ELSE IF missing_people(acc.missing) # <<>> THEN missing_people(acc.missing)[1]
       ELSE IF \E i \in 1..Len(people) : formatted[i] = <<>>
         THEN RenderRaise("Family name not unique", <<>>, <<>>)
       ELSE RenderReturn(drop_duplicate_strings([i \in 1..Len(people) |-> formatted[i][1]]),
                         people),
     cache |-> acc.cache, builds |-> acc.builds, printed |-> acc.printed]))))

\* author strings: 'a b', 'b a', with an ORCID, and an ambiguous one
OrcidText1 ==
  <<"0", "0", "0", "0", "-", "0", "0", "0", "1", "-", "0", "0", "0", "0", "-", "0", "0", "0", "X">>
OrcidText2 ==
  <<"0", "0", "0", "0", "-", "0", "0", "0", "1", "-", "0", "0", "0", "0", "-", "0", "0", "0", "1">>
WithOrcid(title, orcid) == title \o <<" ", "(">> \o orcid \o <<")">>
AuthorAB == <<"a", " ", "b">>
AuthorBA == <<"b", " ", "a">>
AuthorABA == <<"a", " ", "b", " ", "a">>

\* the author columns of source.csv, exploded: lists of up to n strings of S
AuthorLists(S, n) == UNION {[1..k -> S] : k \in 0..n}

SmallAuthorStrings == {WithOrcid(AuthorAB, OrcidText1), AuthorBA}

InitFind ==
  /\ cache = <<>>
  /\ builds = 0
  /\ call = <<>>
  /\ outcome = <<>>
  /\ printed = <<>>
  /\ memo = <<>>
  /\ rendered = <<>>

\* One call find_person(title, orcid, email), build_person_list() included.
FindPerson ==
  \E args \in CallArgs :
    LET b == build_person_list(cache, csv, builds)
        r == find_person(b.people, args.title, args.orcid, args.email)
    IN  /\ cache' = <<r.people>>
        /\ builds' = b.builds
        /\ call' = <<[op |-> "find_person", args |-> args]>>
        /\ outcome' = <<Observed(r)>>
        /\ printed' = r.printed
        /\ memo' = IF memo # <<>> /\ memo[1].args # args
                     THEN <<[memo[1] EXCEPT !.between = TRUE]>> ELSE memo
        /\ UNCHANGED <<csv, authors, rendered>>

\* One call render_author_list().
RenderAuthorList ==
  \E r \in {render_author_list(authors, csv, cache, builds)} :
      /\ cache' = r.cache
      /\ builds' = r.builds
      /\ call' = <<[op |-> "render_author_list", args |-> NoArgs]>>
      /\ outcome' = <<[kind |-> r.out.kind, error |-> r.out.error, result |-> r.out.strings]>>
      /\ rendered' = <<r.out>>
      /\ printed' = r.printed
      /\ UNCHANGED <<csv, memo, authors>>

\* The observer remembers the last call and its outcome (once per run).
Remember ==
  /\ memo = <<>>
  /\ call # <<>>
  /\ memo' = <<[args |-> call[1].args, outcome |-> outcome[1], between |-> FALSE]>>
  /\ UNCHANGED <<csv, cache, builds, call, outcome, printed, authors, rendered>>

InitInferIdle == latin = <<>> /\ name = <<>> /\ inferred = <<>>
InitParseIdle == token = <<>> /\ parsed = <<>>
InitCslIdle == sources = <<>> /\ non_latin = "literal" /\ csl = <<>>
InitKeyIdle == surname = <<>> /\ forename = <<>> /\ sortkey = <<>>
InitJoinIdle == piped = <<>> /\ english = <<>>
InitFindIdle == InitFind /\ csv = <<>> /\ authors = <<>>
InitSrcIdle == src_row = <<>> /\ src_mode = "literal" /\ src_note = FALSE /\ src_csl = <<>>
InitEssdIdle == essd_name = <<>> /\ essd_token = <<>> /\ essd_out = <<>>
InitDepthIdle == ts_dfs = <<>> /\ ts_years = <<>> /\ ts_borehole = 0 /\ ts_out = <<>>
InitSubsetIdle ==
  sub_dfs = <<>> /\ sub_masks = <<>> /\ sub_secondary = FALSE /\ sub_out = <<>>
InitZenIdle ==
  /\ zen_server = <<>> /\ zen_token = FALSE /\ zen_call = <<>> /\ zen_pc = "idle"
  /\ zen_run = <<>>
InitMoreIdle ==
  InitSrcIdle /\ InitEssdIdle /\ InitDepthIdle /\ InitSubsetIdle /\ InitZenIdle
InitPureIdle == InitKeyIdle /\ InitJoinIdle /\ InitMoreIdle
pureVars == <<keyVars, joinVars, moreVars>>

Init ==
  /\ InitFind /\ csv \in CsvFiles /\ authors = <<>>
  /\ InitInferIdle /\ InitParseIdle /\ InitCslIdle /\ InitPureIdle

Next == FindPerson /\ UNCHANGED inferVars /\ UNCHANGED parseVars /\ UNCHANGED cslVars /\ UNCHANGED pureVars

\* find_person calls against any registry
Spec == Init /\ [][Next]_vars

InitRun ==
  /\ InitFind /\ csv \in SmallCsvFiles
  /\ authors \in AuthorLists(SmallAuthorStrings, MaxAuthors)
  /\ InitInferIdle /\ InitParseIdle /\ InitCslIdle /\ InitPureIdle

NextRun ==
  \/ FindPerson /\ UNCHANGED inferVars /\ UNCHANGED parseVars /\ UNCHANGED cslVars /\ UNCHANGED pureVars
  \/ RenderAuthorList /\ UNCHANGED inferVars /\ UNCHANGED parseVars /\ UNCHANGED cslVars /\ UNCHANGED pureVars

\* any sequence of find_person and render_author_list calls in one run
SpecRun == InitRun /\ [][NextRun]_vars

InitTwice ==
  /\ InitFind /\ csv \in SmallCsvFiles /\ authors = <<>>
  /\ InitInferIdle /\ InitParseIdle /\ InitCslIdle /\ InitPureIdle

NextTwice ==
  \/ FindPerson /\ UNCHANGED inferVars /\ UNCHANGED parseVars /\ UNCHANGED cslVars /\ UNCHANGED pureVars
  \/ Remember /\ UNCHANGED inferVars /\ UNCHANGED parseVars /\ UNCHANGED cslVars /\ UNCHANGED pureVars

\* find_person calls, one of them remembered and compared with the later ones
SpecTwice == InitTwice /\ [][NextTwice]_vars

\* the Latin name, Latin family name and name of a person of person.csv: 'a b' and
\* 'A b' of family 'b', and 'b a_ring' of family 'a_ring' with an original name
RenderNames ==
  {[latin_name |-> <<"a", " ", "b">>, latin_family_name |-> <<"b">>, name |-> <<>>],
   [latin_name |-> <<"A", " ", "b">>, latin_family_name |-> <<"b">>, name |-> <<>>],
   [latin_name |-> <<"b", " ", "a_ring">>, latin_family_name |-> <<"a_ring">>,
    name |-> <<<<"ya", " ", "ya">>>>]}

\* rows of person.csv with one title: any of the names without ORCID, and the
\* second title with the first name and an ORCID
RenderRows ==
  {[titles |-> <<{t}>>, emails |-> <<>>, orcid |-> None,
    latin_name |-> n.latin_name, latin_family_name |-> n.latin_family_name, name |-> n.name]
     : t \in Titles, n \in RenderNames}
  \cup {[titles |-> <<{Title2}>>, emails |-> <<>>, orcid |-> Orcid1,
          latin_name |-> <<"a", " ", "b">>, latin_family_name |-> <<"b">>, name |-> <<>>]}

RenderCsvFiles == UNION {[1..n -> RenderRows] : n \in 0..MaxPeople}

RenderAuthorStrings ==
  {AuthorAB, AuthorBA, WithOrcid(AuthorAB, OrcidText1), WithOrcid(AuthorBA, OrcidText2),
   AuthorABA}

InitRender ==
  /\ InitFind /\ csv \in RenderCsvFiles
  /\ authors \in AuthorLists(RenderAuthorStrings, MaxAuthors)
  /\ InitInferIdle /\ InitParseIdle /\ InitCslIdle /\ InitPureIdle

NextRender == RenderAuthorList /\ UNCHANGED inferVars /\ UNCHANGED parseVars /\ UNCHANGED cslVars /\ UNCHANGED pureVars

\* render_author_list on every bounded person.csv and source.csv
SpecRender == InitRender /\ [][NextRender]_vars

----------------------------------------------------------------------------
(* Bibliography: the person names of convert_source_to_csl, render_sources_as_csl *)

CslReturn(value) == [kind |-> "return", error |-> None, failed |-> <<>>, value |-> value]
CslRaise(error, string) == [kind |-> "error", error |-> error, failed |-> <<string>>, value |-> <<>>]

\* A variant that puts the Latin name into the brackets of the given name.
CslNameLatinInBrackets(person, mode) ==
  IF person.name # <<>>
    THEN IF mode = "given"
           THEN [literal |-> <<>>,
                 family |-> <<person.latin.family>>,
                 given |-> <<person.latin.given \o <<" ", "[">> \o person.latin.name \o <<"]">>>>]
           ELSE [literal |-> <<person.title>>, family |-> <<>>, given |-> <<>>]
    ELSE [literal |-> <<>>,
          family |-> <<person.latin.family>>, given |-> <<person.latin.given>>]

\* lines 562-572: the name object of a parsed person; a key that is absent is <<>>
CslName(person, mode) ==
  IF person.name # <<>>
    THEN IF mode = "given"
           THEN [literal |-> <<>>,
                 family |-> <<person.latin.family>>,
                 given |-> <<person.latin.given \o <<" ", "[">> \o person.name[1].name \o <<"]">>>>]
           ELSE [literal |-> <<person.title>>, family |-> <<>>, given |-> <<>>]
    ELSE [literal |-> <<>>,
          family |-> <<person.latin.family>>, given |-> <<person.latin.given>>]

\* lines 559-573: the loop over the person strings of one key; names is the list so
\* far, the first string that does not parse raises
RECURSIVE CslNames(_, _, _)
CslNames(strings, mode, list) ==
  Let(list, LAMBDA names :
    IF strings = <<>> THEN CslReturn(names)
    ELSE Let(parse_person_string(Head(strings)), LAMBDA p :
           IF p.kind = "error" THEN CslRaise(p.error, Head(strings))
           ELSE CslNames(Tail(strings), mode, Append(names, CslName(p.value[1], mode)))))

DoiPrefix ==
  <<"h", "t", "t", "p", "s", ":", "/", "/", "d", "o", "i", ".", "o", "r", "g", "/">>

\* lines 575-577: None (<<>>), or url.replace('https://doi.org/', '') for a url that
\* starts with 'https://doi.org/'
doi_of(url) ==
  IF url # <<>> /\ url[1] # <<>> /\ MatchesAt(url[1], 1, DoiPrefix)
    THEN <<RemoveAll(url[1], DoiPrefix)>> ELSE <<>>

\* bool(value) of a string or list that may be None
Truthy(value) == value # <<>> /\ Len(value[1]) > 0

\* essd.convert_source_to_csl, lines 164-168: source_title or 'Personal communication'
essd_source_title_of(source) ==
  IF source.type = "personal-communication" /\ ~Truthy(source.title)
    THEN <<"Personal communication">> ELSE source.title

\* lines 580-584: the title of the source, of a personal communication
source_title_of(source) ==
  IF source.type = "personal-communication"
    THEN <<"Personal communication">> ELSE source.title

\* lines 580-583
source_type_of(source) ==
  IF source.type = "personal-communication" THEN "personal_communication" ELSE source.type

\* line 608: the keys with a truthy value; an absent key is <<>>
keep_truthy(dict) == [key \in DOMAIN dict |-> IF Truthy(dict[key]) THEN dict[key] ELSE <<>>]

\* lines 585-608: the CSL dict of a source whose names are the lists a and e.  The
\* columns copied as they are (container_title, volume, issue, page, version,
\* collection_title, collection_number, publisher) stand behind language; issued is
\* a dict and always truthy.
csl_dict(source, a, e, zotero) ==
  Let(doi_of(source.url), LAMBDA doi :
    keep_truthy(
      [id       |-> source.id,
       citation_key |-> source.id,
       author   |-> <<a>>,
       issued   |-> <<source.year>>,
       type     |-> <<source_type_of(source)>>,
       title    |-> source_title_of(source),
       DOI      |-> doi,
       URL      |-> IF Truthy(doi) THEN <<>> ELSE source.url,
       language |-> source.language,
       editor   |-> <<e>>,
       note     |-> IF zotero THEN <<<<"Citation key: ", source.id>>>> ELSE <<>>]))

\* convert_source_to_csl (lines 528-608): the names of the authors, then of the
\* editors, then the dict
convert_source_to_csl(source, mode, zotero) ==
  Let(CslNames(source.author, mode, <<>>), LAMBDA a :
    IF a.kind = "error" THEN a
    ELSE Let(CslNames(source.editor, mode, <<>>), LAMBDA e :
           IF e.kind = "error" THEN e
           ELSE CslReturn(csl_dict(source, a.value, e.value, zotero))))

\* render_sources_as_csl, lines 618-623: the list of the converted sources; the
\* first source that raises ends the comprehension
RECURSIVE render_sources_as_csl(_, _, _, _)
render_sources_as_csl(rows, mode, zotero, list) ==
  Let(list, LAMBDA done :
    IF rows = <<>> THEN CslReturn(done)
    ELSE Let(convert_source_to_csl(Head(rows), mode, zotero), LAMBDA c :
           IF c.kind = "error" THEN c
           ELSE render_sources_as_csl(Tail(rows), mode, zotero, Append(done, c.value))))

\* df['author'].str.split(' | ').dropna().explode() (lines 771-774)
RECURSIVE Explode(_)
Explode(rows) == IF rows = <<>> THEN <<>> ELSE Head(rows).author \o Explode(Tail(rows))

\* person strings of the bibliography: a Latin name, an ambiguous Latin name, and a
\* Cyrillic name with its Latin form
BatchStrings ==
  {AuthorAB, AuthorABA, <<"ya", " ", "ya", " ", "[", "a", " ", "b", "]">>}

\* the number of person strings of the rows
RECURSIVE CountStrings(_)
CountStrings(rows) ==
  IF rows = <<>> THEN 0
  ELSE Len(Head(rows).author) + Len(Head(rows).editor) + CountStrings(Tail(rows))

\* a row of source.csv: author and editor split on ' | ', a missing cell is <<>>
SourceOf(author, editor, type, title, url, language) ==
  [id |-> <<"s">>, author |-> author, editor |-> editor, year |-> <<2000>>, type |-> type,
   title |-> title, url |-> url, language |-> language]

SourceRows ==
  {SourceOf(r.author, r.editor, "article", <<"t">>, <<>>, <<>>) :
     r \in {x \in [author : AuthorLists(BatchStrings, MaxAuthors),
                    editor : AuthorLists(BatchStrings, MaxAuthors)] :
              CountStrings(<<x>>) <= MaxAuthors}}

\* source.csv: up to MaxSources rows with up to MaxAuthors person strings in all
RECURSIVE SourceFilesOf(_)
SourceFilesOf(n) ==
  IF n = 0 THEN {<<>>}
  ELSE UNION {{Append(f, r) : r \in {x \in SourceRows :
                                       CountStrings(f) + CountStrings(<<x>>) <= MaxAuthors}} :
              f \in SourceFilesOf(n - 1)}

SourceFiles == UNION {SourceFilesOf(n) : n \in 0..MaxSources}

\* person.csv for the bibliography: no person, one person, two with the same title
BatchCsvFiles ==
  LET row == [titles |-> <<{Title1}>>, emails |-> <<>>, orcid |-> None,
              latin_name |-> <<"a", " ", "b">>, latin_family_name |-> <<"b">>,
              name |-> <<>>]
  IN  {<<>>, <<row>>, <<row, [row EXCEPT !.orcid = Orcid1]>>}

\* One call render_sources_as_csl(non_latin).
RenderSourcesAsCsl ==
  /\ csl' = <<render_sources_as_csl(sources, non_latin, FALSE, <<>>)>>
  /\ UNCHANGED <<sources, non_latin>>

InitBatch ==
  /\ InitFind /\ csv \in BatchCsvFiles
  /\ sources \in SourceFiles /\ authors = Explode(sources)
  /\ non_latin \in {"literal", "given"} /\ csl = <<>>
  /\ InitInferIdle /\ InitParseIdle /\ InitPureIdle

NextBatch ==
  \/ RenderAuthorList /\ UNCHANGED inferVars /\ UNCHANGED parseVars /\ UNCHANGED cslVars /\ UNCHANGED pureVars
  \/ RenderSourcesAsCsl /\ UNCHANGED findVars /\ UNCHANGED inferVars /\ UNCHANGED parseVars /\ UNCHANGED pureVars

\* the batch operations on one source.csv and person.csv
SpecBatch == InitBatch /\ [][NextBatch]_vars

----------------------------------------------------------------------------
(* The sort key of render_author_list on its own *)

\* a character without a Unicode name (U+0009): unicodedata.name raises ValueError
NamelessChars == {"tab"}

KeyChars == {"a", "A", "q", "Q"} \cup WithLetters \cup NamelessChars

KeyReturn(value) == [kind |-> "return", error |-> None, value |-> value]
KeyRaise(error) == [kind |-> "error", error |-> error, value |-> <<>>]

\* the key function of sorted (lines 793-796) for one person; unicodedata.name
\* (line 754) raises for a character without a name
sort_key(family_name, given_name) ==
  IF HasAny(family_name \o given_name, NamelessChars)
    THEN KeyRaise("no such name")
    ELSE KeyReturn(SortKey([latin |-> [family |-> family_name, given |-> given_name]]))

\* The key of one person is computed.
ComputeSortKey ==
  /\ sortkey' = <<sort_key(surname, forename)>>
  /\ UNCHANGED <<surname, forename>>

InitKey ==
  /\ surname \in Strings(KeyChars, MaxKeyLen)
  /\ forename \in {<<>>, <<"a_ring">>, <<"A">>}
  /\ sortkey = <<>>

InitK ==
  /\ InitFindIdle /\ InitInferIdle /\ InitParseIdle /\ InitCslIdle /\ InitKey /\ InitJoinIdle
  /\ InitMoreIdle

NextK ==
  ComputeSortKey /\ UNCHANGED findVars /\ UNCHANGED inferVars /\ UNCHANGED parseVars
                 /\ UNCHANGED cslVars /\ UNCHANGED joinVars /\ UNCHANGED moreVars

\* the sort key of every bounded latin name
SpecKey == InitK /\ [][NextK]_vars

----------------------------------------------------------------------------
(* The English list of people: zenodo.py, essd.py, scripts/build_zenodo_json.py *)

\* string.split(sep) for a separator of several characters
RECURSIVE SplitSep(_, _)
SplitSep(s, sep) ==
  LET starts == {k \in 1..(Len(s) - Len(sep) + 1) : Slice(s, k, k + Len(sep) - 1) = sep}
  IN  IF starts = {} THEN <<s>>
      ELSE LET i == CHOOSE k \in starts : \A m \in starts : k <= m
           IN  <<Slice(s, 1, i - 1)>> \o SplitSep(Slice(s, i + Len(sep), Len(s)), sep)

\* sep.join(words)
RECURSIVE JoinSep(_, _)
JoinSep(words, sep) ==
  IF words = <<>> THEN <<>>
  ELSE IF Len(words) = 1 THEN words[1]
  ELSE words[1] \o sep \o JoinSep(Tail(words), sep)

\* re.sub(fr' \({ORCID_REGEX}\)', '', person) (zenodo.py line 286)
RECURSIVE strip_orcid(_)
strip_orcid(s) ==
  IF s = <<>> THEN <<>>
  ELSE IF /\ Len(s) >= 22 /\ s[1] = " " /\ s[2] = "(" /\ s[22] = ")"
          /\ IsOrcid(Slice(s, 3, 21))
    THEN strip_orcid(Slice(s, 23, Len(s)))
    ELSE <<s[1]>> \o strip_orcid(Tail(s))

Pipe == <<" ", "|", " ">>
CommaSpace == <<",", " ">>
And == <<" ", "a", "n", "d", " ">>
CommaAnd == <<",", " ", "a", "n", "d", " ">>

\* A variant that joins three or more names without the comma before 'and'.
english_list_no_serial_comma(names) ==
  IF Len(names) = 1 THEN names[1]
  ELSE JoinSep(ButLast(names), CommaSpace) \o And \o names[Len(names)]

\* the join of a list of one or more names (zenodo.py lines 287-291, essd.py lines
\* 115-120, scripts/build_zenodo_json.py lines 38-42)
english_list(names) ==
  IF Len(names) = 1 THEN names[1]
  ELSE IF Len(names) = 2 THEN JoinSep(names, And)
  ELSE JoinSep(ButLast(names), CommaSpace) \o CommaAnd \o names[Len(names)]

\* zenodo.convert_people_to_english_list (lines 282-291)
convert_people_to_english_list(string) ==
  LET pieces == SplitSep(string, Pipe)
  IN  english_list([i \in 1..Len(pieces) |-> strip_orcid(pieces[i])])

\* scripts/build_zenodo_json.convert_people_to_english_list (lines 35-42)
convert_people_to_english_list_script(string) == english_list(SplitSep(string, Pipe))

\* the title of essd.format_authors_for_essd (lines 111-120): <<>> is None
format_authors_for_essd_title(names, is_latin_only) ==
  IF is_latin_only THEN <<>> ELSE <<english_list(names)>>

\* One call of zenodo.convert_people_to_english_list(people).
ZenodoEnglishList ==
  /\ english' = <<[fn |-> "zenodo", value |-> <<convert_people_to_english_list(piped)>>]>>
  /\ UNCHANGED piped

\* One call of the convert_people_to_english_list of scripts/build_zenodo_json.py.
ScriptEnglishList ==
  /\ english' = <<[fn |-> "script", value |-> <<convert_people_to_english_list_script(piped)>>]>>
  /\ UNCHANGED piped

\* One call of essd.format_authors_for_essd on the persons of the string; whether
\* every person lacks a name in original script is an input.
EssdTitle ==
  \E is_latin_only \in BOOLEAN :
    /\ english' = <<[fn |-> "essd",
                     value |-> format_authors_for_essd_title(SplitSep(piped, Pipe),
                                                             is_latin_only)]>>
    /\ UNCHANGED piped

\* one name of a person, with and without ORCID
NameUnits == {<<"a">>, AuthorBA, WithOrcid(<<"b">>, OrcidText1)}

\* pipe-delimited strings of up to MaxNames names
PipedInputs ==
  {JoinSep(names, Pipe) : names \in Strings(NameUnits, MaxNames)}

InitJoin == piped \in PipedInputs /\ english = <<>>

InitJ ==
  /\ InitFindIdle /\ InitInferIdle /\ InitParseIdle /\ InitCslIdle /\ InitKeyIdle /\ InitJoin
  /\ InitMoreIdle

NextJ ==
  \/ ZenodoEnglishList /\ UNCHANGED findVars /\ UNCHANGED inferVars /\ UNCHANGED parseVars
                       /\ UNCHANGED cslVars /\ UNCHANGED keyVars /\ UNCHANGED moreVars
  \/ ScriptEnglishList /\ UNCHANGED findVars /\ UNCHANGED inferVars /\ UNCHANGED parseVars
                       /\ UNCHANGED cslVars /\ UNCHANGED keyVars /\ UNCHANGED moreVars
  \/ EssdTitle /\ UNCHANGED findVars /\ UNCHANGED inferVars /\ UNCHANGED parseVars
               /\ UNCHANGED cslVars /\ UNCHANGED keyVars /\ UNCHANGED moreVars

\* the English list of every bounded string of people
SpecJoin == InitJ /\ [][NextJ]_vars

----------------------------------------------------------------------------
(* Calls of infer_name_parts *)


\* Latin-only names; and the names with an original form and their Latin forms
LatinOnlyInputs == Strings({"a", ".", " "}, MaxLatinLen)
ScriptMixes ==
  {CyrillicChars, HanChars, HangulChars, KanaChars, OtherChars,
   HanChars \cup KanaChars, CyrillicChars \cup OtherChars}
NameInputs == UNION {Strings(mix \cup {" "}, MaxNameLen) : mix \in ScriptMixes}
LatinFormInputs == Strings({"a", " "}, MaxNameLen + 2)

InitInfer ==
  /\ \/ name = <<>> /\ latin \in LatinOnlyInputs
     \/ \E nm \in NameInputs : name = <<nm>> /\ latin \in LatinFormInputs
  /\ inferred = <<>>

\* One call infer_name_parts(latin, name).
InferNameParts ==
  /\ inferred = <<>>
  /\ inferred' = <<infer_name_parts(latin, name)>>
  /\ UNCHANGED <<latin, name>>


InitI == InitFindIdle /\ InitInfer /\ InitParseIdle /\ InitCslIdle /\ InitPureIdle

NextI ==
  InferNameParts /\ UNCHANGED findVars /\ UNCHANGED parseVars /\ UNCHANGED cslVars /\ UNCHANGED pureVars

\* infer_name_parts on every bounded input
SpecInfer == InitI /\ [][NextI]_vars

----------------------------------------------------------------------------
(* Calls of parse_person_string *)

\* the words person strings are made of: plain, abbreviated, braced, half-braced,
\* Cyrillic, of a script that is not supported
Units ==
  {<<"a">>, <<"b", ".">>, <<"{", "a", "}">>, <<"{", "a">>, <<"b", "}">>, <<"ya">>, <<"ar">>}

\* the phrases of 1..n words separated by one space
Phrases(n) == {Join(ws) : ws \in UNION {[1..k -> Units] : k \in 1..n}}

\* titles: a phrase, or a shorter phrase and a bracketed phrase
TitleInputs ==
  Phrases(MaxWords)
  \cup {p \o <<" ", "[">> \o q \o <<"]">> :
          p \in Phrases(MaxWords - 1), q \in Phrases(MaxWords - 1)}

\* what may follow the title: an ORCID, an email, or something that is neither
IdentifierInputs ==
  {<<"0", "0", "0", "0", "-", "0", "0", "0", "1", "-", "0", "0", "0", "0", "-", "0", "0", "0", "X">>, <<"a", "@", "b", ".", "a", "b">>, <<"0", "0", "0", "0", "-", "0", "0", "0", "1">>, <<"a", "@", "b", ".", "a">>}

ShortTitleInputs ==
  Phrases(2) \cup {p \o <<" ", "[">> \o q \o <<"]">> : p \in Phrases(2), q \in Phrases(1)}

TokenInputs ==
  TitleInputs
  \cup {t \o <<" ", "(">> \o id \o <<")">> : t \in ShortTitleInputs, id \in IdentifierInputs}

InitParse == token \in TokenInputs /\ parsed = <<>>

\* One call parse_person_string(string).
ParsePersonString ==
  /\ parsed = <<>>
  /\ parsed' = <<parse_person_string(token)>>
  /\ UNCHANGED token

InitP == InitFindIdle /\ InitInferIdle /\ InitParse /\ InitCslIdle /\ InitPureIdle

NextP ==
  ParsePersonString /\ UNCHANGED findVars /\ UNCHANGED inferVars /\ UNCHANGED cslVars /\ UNCHANGED pureVars

\* parse_person_string on every bounded person string
SpecParse == InitP /\ [][NextP]_vars

----------------------------------------------------------------------------
(* Calls of convert_source_to_csl *)

\* One call convert_source_to_csl(source, non_latin, zotero_citation_key).
ConvertSourceToCsl ==
  /\ src_csl' = <<convert_source_to_csl(src_row, src_mode, src_note)>>
  /\ UNCHANGED <<src_row, src_mode, src_note>>

\* person strings: Latin, ambiguous Latin, with an original form, with curly braces
\* on both sides, with an ORCID
CslStrings ==
  {AuthorAB, AuthorABA,
   <<"ya", " ", "ya", " ", "[", "a", " ", "b", "]">>,
   <<"ya", " ", "{", "ya", "}", " ", "[", "a", " ", "{", "b", "}", "]">>,
   WithOrcid(AuthorAB, OrcidText1)}

\* the url column: None, '', DOI links (bare, simple, with the prefix twice), other
UrlInputs ==
  {<<>>, <<<<>>>>, <<DoiPrefix>>, <<DoiPrefix \o <<"x">>>>,
   <<DoiPrefix \o <<"x">> \o DoiPrefix \o <<"x">>>>, <<<<"u">>>>, <<<<"u">> \o DoiPrefix>>}

SrcRows ==
  {SourceOf(r.author, r.editor, r.type, r.title, r.url, r.language) :
     r \in [author : AuthorLists(CslStrings, MaxAuthors),
            editor : {<<>>, <<<<"ya", " ", "ya", " ", "[", "a", " ", "b", "]">>>>},
            type : {"article", "personal-communication"},
            title : {<<>>, <<"t">>},
            url : UrlInputs,
            language : {<<>>, <<"en">>}]}

InitSrc ==
  /\ src_row \in SrcRows /\ src_mode \in {"literal", "given"} /\ src_note \in BOOLEAN
  /\ src_csl = <<>>

----------------------------------------------------------------------------
(* ESSD name rendering: essd.py *)

EssdReturn(value) == [kind |-> "return", value |-> value]
EssdRaise(error) == [kind |-> "error", value |-> error]

\* infer_script(name): the script family of a string, by the ranges and in the
\* order of infer_name_parts (glenglat.py lines 374-419); a string with a letter
\* of no supported range is not classified, a string without any such letter
\* is Latin
infer_script(string) ==
  IF HasAny(string, OtherChars) THEN "unsupported"
  ELSE IF HasAny(string, CyrillicChars) THEN "cyrillic"
  ELSE IF HasAny(string, HanChars)
    THEN IF HasAny(string, {" "}) THEN "kanji" ELSE "chinese"
  ELSE IF HasAny(string, HangulChars) THEN "hangul"
  ELSE IF HasAny(string, KanaChars) THEN "kana"
  ELSE "latin"

\* A variant that abbreviates a word of any length that does not end in a period.
AbbreviateWordAnyLength(word, script) ==
  IF Len(word) > 0 /\ word[Len(word)] # "." /\ script \in {"latin", "cyrillic"}
    THEN <<word[1], ".">>
    ELSE word

\* essd.py lines 32-33: one word of the given name
AbbreviateWord(word, script) ==
  IF Len(word) > 1 /\ word[Len(word)] # "." /\ script \in {"latin", "cyrillic"}
    THEN <<word[1], ".">>
    ELSE word

\* essd.py lines 30-37, for the script of line 29
AbbreviateParts(given, script) ==
  LET parts == SplitSep(given, <<" ">>)
  IN  JoinSep([p \in 1..Len(parts) |->
                 LET words == SplitSep(parts[p], <<"-">>)
                 IN  JoinSep([w \in 1..Len(words) |-> AbbreviateWord(words[w], script)],
                             <<"-">>)],
              <<" ">>)

\* abbreviate_given_name(name) (essd.py lines 29-37)
abbreviate_given_name(given) ==
  IF infer_script(given) = "unsupported" THEN EssdRaise("Unsupported script")
  ELSE EssdReturn(AbbreviateParts(given, infer_script(given)))

\* render_name_for_essd(name) (essd.py lines 46-51)
render_name_for_essd(dict) ==
  IF infer_script(dict.name) = "unsupported" THEN EssdRaise("Unsupported script")
  ELSE IF infer_script(dict.name) \in {"latin", "cyrillic"}
    THEN IF abbreviate_given_name(dict.given).kind = "error"
           THEN abbreviate_given_name(dict.given)
           ELSE EssdReturn(dict.family \o <<",", " ">>
                           \o abbreviate_given_name(dict.given).value)
  ELSE EssdReturn(dict.name)

\* A variant that always renders the Latin name.
format_author_for_essd_latin(person) == render_name_for_essd(person.latin)

\* format_author_for_essd(person)[1] (essd.py lines 71 and 75)
format_author_for_essd(person) ==
  render_name_for_essd(IF person.name # <<>> THEN person.name[1] ELSE person.latin)

\* format_author_for_essd(parse_person_string(string))[1], as in essd.py
\* lines 174-175 for one string
format_parsed_author_for_essd(string) ==
  IF parse_person_string(string).kind = "error"
    THEN EssdRaise(parse_person_string(string).error)
    ELSE format_author_for_essd(parse_person_string(string).value[1])

\* One call render_name_for_essd(name).
RenderNameForEssd ==
  /\ essd_name # <<>> /\ essd_out = <<>>
  /\ essd_out' = <<render_name_for_essd(essd_name[1])>>
  /\ UNCHANGED <<essd_name, essd_token>>

\* One call format_author_for_essd(parse_person_string(string)).
FormatAuthorForEssd ==
  /\ essd_token # <<>> /\ essd_out = <<>>
  /\ essd_out' = <<format_parsed_author_for_essd(essd_token[1])>>
  /\ UNCHANGED <<essd_name, essd_token>>

\* the words of given names: one letter, several letters, abbreviated, hyphenated,
\* Cyrillic, Han, Hangul, kana, of a script that is not supported, empty
GivenWords ==
  {<<"a">>, <<"a", "b">>, <<"b", ".">>, <<"a", "b", "-", "b", "a">>, <<"a", "-", "b", ".">>,
   <<"-", "a", "b">>, <<"ya">>, <<"ya", "ya">>, <<"ya", ".">>, <<"han", "han">>,
   <<"hg", "hg">>, <<"ka", "ka">>, <<"ar", "ar">>, <<>>}

\* given names of one or two words
GivenNames == GivenWords \cup {w1 \o <<" ">> \o w2 : w1 \in GivenWords, w2 \in GivenWords}

FamilyNames == {<<"b">>, <<"b", " ", "a">>, <<"ya", "ya">>, <<"han">>, <<"hg">>, <<"ka">>}

\* the name dictionaries of parse_person_string: the family name after or before
\* the given name
EssdNames ==
  {NameDict(g \o <<" ">> \o f, [family |-> f, given |-> g]) :
     g \in GivenNames, f \in FamilyNames}
  \cup {NameDict(f \o <<" ">> \o g, [family |-> f, given |-> g]) :
          g \in GivenNames, f \in FamilyNames}

\* person strings: Latin, with curly braces, with an original form of each script
EssdTokens ==
  {g \o <<" ">> \o f : g \in {<<"a">>, <<"a", "b">>, <<"b", ".">>, <<"a", "b", "-", "b", "a">>},
                       f \in {<<"b">>, <<"{", "b", " ", "a", "}">>}}
  \cup {<<"{", "b", " ", "a", "}">> \o <<" ">> \o g : g \in {<<"a">>, <<"a", "b">>}}
  \cup {<<"{", "b", " ", "a", "}">>, <<"a", " ", "b", ".">>, <<"a", " ", "b", " ", "a">>}
  \cup {n \o <<" ", "[">> \o l \o <<"]">> :
          n \in {<<"ya", ".", " ", "ya", "ya">>, <<"ya", "ya", " ", "ya", "ya">>,
                 <<"han", "han", " ", "han">>, <<"han", "han", "han">>, <<"hg", "hg", "hg">>,
                 <<"ka", "ka", " ", "ka">>, <<"ar", " ", "ar">>},
          l \in {<<"a", "b", " ", "b">>, <<"b", ".", " ", "a">>}}
  \cup {n \o <<" ", "[">> \o l \o <<"]">> :
          n \in {<<"ya", "ya", " ", "{", "ya", " ", "ya", "}">>,
                 <<"{", "han", "}", " ", "han", "han">>, <<"{", "ar", "}", " ", "ar">>},
          l \in {<<"a", " ", "{", "b", "}">>, <<"a", " ", "b">>}}

InitEssd ==
  /\ essd_out = <<>>
  /\ \/ essd_name \in {<<d>> : d \in EssdNames} /\ essd_token = <<>>
     \/ essd_name = <<>> /\ essd_token \in {<<t>> : t \in EssdTokens}

----------------------------------------------------------------------------
(* interpolate_depth_timeseries *)

\* np.nan
NaN == <<>>

\* the thermistor depths, the keys of dfs
Depths == {1, 2}

\* the temperature measured at a depth in a year
TemperatureAt(depth, year) == depth * year - 3

\* np.interp(x, xp, fp, left=np.nan, right=np.nan) for one x (lines 1251-1257): the
\* value is the fraction <<numerator, denominator>>, df holds year and temperature
\* by increasing year
interp(x, df) ==
  IF x < df[1].year \/ x > df[Len(df)].year THEN NaN
  ELSE IF \E k \in 1..Len(df) : df[k].year = x
    THEN <<(CHOOSE row \in {df[k] : k \in 1..Len(df)} : row.year = x).temperature, 1>>
  ELSE LET k == CHOOSE j \in 1..(Len(df) - 1) : df[j].year < x /\ x < df[j + 1].year
       IN  <<df[k].temperature * (df[k + 1].year - x) + df[k + 1].temperature * (x - df[k].year),
             df[k + 1].year - df[k].year>>

\* the elements of a set of numbers by increasing value
RECURSIVE Ascending(_)
Ascending(S) ==
  IF S = {} THEN <<>>
  ELSE LET least == CHOOSE x \in S : \A y \in S : x <= y
       IN  <<least>> \o Ascending(S \ {least})

\* pd.concat of a list of tables
RECURSIVE Concat(_)
Concat(tables) == IF tables = <<>> THEN <<>> ELSE tables[1] \o Concat(Tail(tables))

DepthReturn(value) == [kind |-> "return", value |-> value]
DepthRaise(error) == [kind |-> "error", value |-> error]

\* lines 1241-1245: one profile per year, ids 1..len(years); the date is kept as
\* the year it is computed from
InitialProfiles(years, borehole_id) ==
  [i \in 1..Len(years) |-> [borehole_id |-> borehole_id, id |-> i, date |-> years[i]]]

\* lines 1247-1268: one measurement per profile and non-empty depth, ordered by
\* profile id and depth
InterpolatedMeasurements(dfs, years, borehole_id) ==
  LET depths == Ascending({d \in DOMAIN dfs : dfs[d] # <<>>})
  IN  Concat([i \in 1..Len(years) |->
                [j \in 1..Len(depths) |->
                   [borehole_id |-> borehole_id, profile_id |-> i, depth |-> depths[j],
                    temperature |-> interp(years[i], dfs[depths[j]])]]])

\* the position of id among the ids of the profiles, 0 when it is not there
IndexOfId(profiles, id) ==
  IF \E k \in 1..Len(profiles) : profiles[k].id = id
    THEN CHOOSE k \in 1..Len(profiles) : profiles[k].id = id
    ELSE 0

\* interpolate_depth_timeseries(dfs, years, borehole_id) (lines 1240-1287).
\* Line 1266 raises when every table of dfs is empty. Line 1285 computes the
\* renumbered profile ids and does not assign them: the profiles keep their ids.
interpolate_depth_timeseries(dfs, years, borehole_id) ==
  IF \A d \in DOMAIN dfs : dfs[d] = <<>> THEN DepthRaise("No objects to concatenate")
  ELSE LET measurements ==
             SelectSeq(InterpolatedMeasurements(dfs, years, borehole_id),
                       LAMBDA m : m.temperature # NaN)
           profiles ==
             SelectSeq(InitialProfiles(years, borehole_id),
                       LAMBDA p : \E k \in 1..Len(measurements) :
                                    measurements[k].profile_id = p.id)
       IN  DepthReturn(
             [profile |-> profiles,
              measurement |->
                [k \in 1..Len(measurements) |->
                   [measurements[k] EXCEPT
                      !.profile_id = IndexOfId(profiles, measurements[k].profile_id)]]])

\* One call interpolate_depth_timeseries(dfs, years, borehole_id).
InterpolateDepthTimeseries ==
  /\ ts_out = <<>>
  /\ ts_out' = <<interpolate_depth_timeseries(ts_dfs, ts_years, ts_borehole)>>
  /\ UNCHANGED <<ts_dfs, ts_years, ts_borehole>>

\* the tables of one depth: the years of a set with their temperatures
DepthTables(depth) ==
  {[k \in 1..Len(Ascending(S)) |->
      [year |-> Ascending(S)[k], temperature |-> TemperatureAt(depth, Ascending(S)[k])]] :
     S \in SUBSET (1..MaxYear)}

InitDepth ==
  /\ ts_dfs \in {[d \in Depths |-> IF d = 1 THEN shallow ELSE deep] :
                   shallow \in DepthTables(1), deep \in DepthTables(2)}
  /\ ts_years \in UNION {[1..n -> 1..MaxYear] : n \in 1..MaxYears}
  /\ ts_borehole \in {1, 2}
  /\ ts_out = <<>>

----------------------------------------------------------------------------
(* Data subset: gather_source_ids and build_subset_from_selection *)

\* A table is a sequence of rows.  A boolean mask of a table is the set of the
\* positions where it is True.

SubsetReturn(value) == [kind |-> "return", value |-> value]
SubsetRaise(error) == [kind |-> "error", value |-> error]

\* df[mask]
RECURSIVE RowsAt(_, _, _)
RowsAt(df, mask, i) ==
  IF i > Len(df) THEN <<>>
  ELSE (IF i \in mask THEN <<df[i]>> ELSE <<>>) \o RowsAt(df, mask, i + 1)

\* gather_source_ids(*args) (lines 837-845): notes holds the source ids that
\* extract_source_ids finds in the text
gather_source_ids(tables) ==
  [primary |-> UNION {{tables[t][i].source_id : i \in 1..Len(tables[t])} :
                        t \in 1..Len(tables)},
   secondary |-> UNION {UNION {tables[t][i].notes : i \in 1..Len(tables[t])} :
                          t \in 1..Len(tables)}]

\* lines 914-917: a mask that is missing or None selects nothing
InitialMasks(dfs, masks) ==
  [key \in DOMAIN dfs |-> IF masks[key] = <<>> THEN {} ELSE masks[key][1]]

\* lines 925-929: the profiles of the measurements of a mask
ProfilesOfMeasurements(dfs, measurement_mask) ==
  {i \in 1..Len(dfs.profile) :
     \E j \in measurement_mask :
       /\ dfs.measurement[j].borehole_id = dfs.profile[i].borehole_id
       /\ dfs.measurement[j].profile_id = dfs.profile[i].id}

\* A variant that skips the boreholes of the profiles.
BoreholesOfNoProfiles(dfs, profile_mask) == {}

\* lines 931-933: the boreholes of the profiles of a mask
BoreholesOfProfiles(dfs, profile_mask) ==
  {i \in 1..Len(dfs.borehole) :
     \E j \in profile_mask : dfs.profile[j].borehole_id = dfs.borehole[i].id}

\* lines 935-937: is_profile_of_selected_borehole
ProfilesOfBoreholes(dfs, borehole_mask) ==
  {i \in 1..Len(dfs.profile) :
     \E j \in borehole_mask : dfs.borehole[j].id = dfs.profile[i].borehole_id}

\* lines 940-942: the measurements of the profiles of a mask
MeasurementsOfProfiles(dfs, profile_mask) ==
  {i \in 1..Len(dfs.measurement) :
     \E j \in profile_mask :
       /\ dfs.measurement[i].borehole_id = dfs.profile[j].borehole_id
       /\ dfs.measurement[i].profile_id = dfs.profile[j].id}

\* lines 944-949: the sources of the boreholes and profiles of the masks
SourcesOf(dfs, borehole_mask, profile_mask, secondary_sources) ==
  LET ids == gather_source_ids(<<RowsAt(dfs.borehole, borehole_mask, 1),
                                  RowsAt(dfs.profile, profile_mask, 1)>>)
  IN  {i \in 1..Len(dfs.source) :
         dfs.source[i].id \in (IF secondary_sources THEN ids.primary \cup ids.secondary
                               ELSE ids.primary)}

\* lines 920-950, for a selection that is not empty
SubsetMasks(dfs, initial, secondary_sources) ==
  LET profiles1 == initial.profile \cup ProfilesOfMeasurements(dfs, initial.measurement)
      boreholes == initial.borehole \cup BoreholesOfProfiles(dfs, profiles1)
      of_selected == ProfilesOfBoreholes(dfs, initial.borehole)
      profiles2 == profiles1 \cup of_selected
      measurements == initial.measurement
                        \cup MeasurementsOfProfiles(dfs, initial.profile \cup of_selected)
  IN  [borehole |-> boreholes, profile |-> profiles2, measurement |-> measurements,
       source |-> initial.source
                    \cup SourcesOf(dfs, boreholes, profiles2, secondary_sources)]

\* build_subset_from_selection(dfs, masks, secondary_sources) (lines 912-950)
build_subset_from_selection(dfs, masks, secondary_sources) ==
  IF \A key \in DOMAIN dfs : InitialMasks(dfs, masks)[key] = {}
    THEN SubsetRaise("Empty selection")
    ELSE SubsetReturn(
           [key \in DOMAIN dfs |->
              RowsAt(dfs[key],
                     SubsetMasks(dfs, InitialMasks(dfs, masks), secondary_sources)[key], 1)])

\* One call build_subset_from_selection(dfs, masks, secondary_sources).
BuildSubsetFromSelection ==
  /\ sub_out = <<>>
  /\ sub_out' = <<build_subset_from_selection(sub_dfs, sub_masks, sub_secondary)>>
  /\ UNCHANGED <<sub_dfs, sub_masks, sub_secondary>>

\* rows of the tables
BoreholeRow(id, source_id, notes) == [id |-> id, source_id |-> source_id, notes |-> notes]
ProfileRow(borehole_id, id, source_id, notes) ==
  [borehole_id |-> borehole_id, id |-> id, source_id |-> source_id, notes |-> notes]
MeasurementRow(borehole_id, profile_id, depth) ==
  [borehole_id |-> borehole_id, profile_id |-> profile_id, depth |-> depth]
SourceRow(id) == [id |-> id]

\* data: two boreholes, profiles with and without measurements, a profile from a
\* source other than its borehole's, a source named only in notes; in the second
\* data set borehole 2 has no profile
Datasets ==
  {[borehole |-> <<BoreholeRow(1, "s1", {}), BoreholeRow(2, "s2", {"s4"})>>,
    profile |-> <<ProfileRow(1, 1, "s1", {}), ProfileRow(1, 2, "s3", {}),
                  ProfileRow(2, 1, "s2", {})>>,
    measurement |-> <<MeasurementRow(1, 1, 1), MeasurementRow(1, 1, 2),
                      MeasurementRow(2, 1, 1)>>,
    source |-> <<SourceRow("s1"), SourceRow("s2"), SourceRow("s3"), SourceRow("s4")>>],
   [borehole |-> <<BoreholeRow(1, "s1", {"s2"}), BoreholeRow(2, "s1", {})>>,
    profile |-> <<ProfileRow(1, 1, "s2", {}), ProfileRow(1, 2, "s1", {"s3"})>>,
    measurement |-> <<MeasurementRow(1, 2, 1), MeasurementRow(1, 1, 1)>>,
    source |-> <<SourceRow("s1"), SourceRow("s2"), SourceRow("s3")>>]}

\* the masks of a table: missing or None, or any boolean mask
MasksOf(df) == {<<>>} \cup {<<mask>> : mask \in SUBSET (1..Len(df))}

InitSubset ==
  /\ sub_dfs \in Datasets
  /\ sub_masks \in {[key \in DOMAIN sub_dfs |->
                       IF key = "borehole" THEN b ELSE IF key = "profile" THEN p
                       ELSE IF key = "measurement" THEN m ELSE s] :
                      b \in MasksOf(sub_dfs.borehole), p \in MasksOf(sub_dfs.profile),
                      m \in MasksOf(sub_dfs.measurement), s \in MasksOf(sub_dfs.source)}
  /\ sub_secondary \in BOOLEAN
  /\ sub_out = <<>>

----------------------------------------------------------------------------
(* Zenodo: the requests of zenodo.py and publish_to_zenodo *)

\* The Zenodo server holds at most one published record and one draft; extra says
\* that a second published record matches the search.  A record on the server has a
\* version, file entries, metadata and a reserved DOI (<<>> when none).
ZenRecord(version, files, metadata, doi) ==
  [version |-> version, files |-> files, metadata |-> metadata, doi |-> doi]

\* the version of the package, metadata['version']
PackageVersion == "v2"
\* the order in which the server lists file entries
FileNames == <<"old.zip", "glenglat.zip">>
\* the DOI the server reserves for the draft
DraftDoi == "10.5281/zenodo.2"

\* response.json() for a record: the fields of the dict that the code reads
ResponseOf(server, id) ==
  [id |-> id,
   is_draft |-> IF id = "draft" THEN "true" ELSE "false",
   version |-> server[id][1].version,
   doi |-> server[id][1].doi]

Request(method, id, link) == [method |-> method, url |-> <<id, link>>]

\* what a call does: it returns or raises, leaves the server in a state, and has
\* issued requests
ZenReturn(value, server, requests) ==
  [kind |-> "return", value |-> value, error |-> "", server |-> server,
   requests |-> requests]
ZenRaise(error, server, requests) ==
  [kind |-> "error", value |-> <<>>, error |-> error, server |-> server,
   requests |-> requests]

\* the outcomes of a call, with the requests issued before it put in front
After(requests, outcomes) == {[o EXCEPT !.requests = requests \o @] : o \in outcomes}

\* raise_error_if_not_draft(record) raises (lines 502-505): is_draft is "true",
\* "false" or "missing"
raise_error_if_not_draft(record) == record.is_draft # "true"

\* A variant of edit_draft without the check that the record is a draft.
edit_draft_unchecked(has_token, server, record, metadata) ==
  LET done == [server EXCEPT ![record.id] = <<[@[1] EXCEPT !.metadata = metadata]>>]
      put == <<Request("PUT", record.id, "self")>>
  IN  IF ~has_token THEN {ZenRaise("Missing access token", server, <<>>)}
      ELSE {ZenRaise("Error", server, put),
            ZenReturn(<<ResponseOf(done, record.id)>>, done, put)}

\* edit_draft(record, metadata) (lines 532-543): get_headers raises without a
\* token, raise_error raises on a status of 400 or more
edit_draft(has_token, server, record, metadata) ==
  LET done == [server EXCEPT ![record.id] = <<[@[1] EXCEPT !.metadata = metadata]>>]
      put == <<Request("PUT", record.id, "self")>>
  IN  IF raise_error_if_not_draft(record)
        THEN {ZenRaise("Record is not a draft.", server, <<>>)}
      ELSE IF ~has_token THEN {ZenRaise("Missing access token", server, <<>>)}
      ELSE {ZenRaise("Error", server, put),
            ZenReturn(<<ResponseOf(done, record.id)>>, done, put)}

\* clear_draft(record) (lines 508-529): list the files, delete them one by one,
\* clear the metadata; a request that fails ends the call
clear_draft(has_token, server, record) ==
  LET entries == SelectSeq(FileNames, LAMBDA f : f \in server[record.id][1].files)
      list == <<Request("GET", record.id, "files")>>
      deletes(k) == [i \in 1..k |-> Request("DELETE", record.id, entries[i])]
      deleted(k) ==
        [server EXCEPT ![record.id] =
           <<[@[1] EXCEPT !.files = @ \ {entries[i] : i \in 1..k}]>>]
  IN  IF raise_error_if_not_draft(record)
        THEN {ZenRaise("Record is not a draft.", server, <<>>)}
      ELSE IF ~has_token THEN {ZenRaise("Missing access token", server, <<>>)}
      ELSE {ZenRaise("Error", server, list)}
           \cup {ZenRaise("Error", deleted(k - 1), list \o deletes(k)) :
                   k \in 1..Len(entries)}
           \cup After(list \o deletes(Len(entries)),
                      edit_draft(has_token, deleted(Len(entries)), record, ""))

\* add_file_to_draft(record, path) (lines 546-577): register the file, upload its
\* content, commit the upload; the entry exists from the registration on
add_file_to_draft(has_token, server, record, path) ==
  LET registered == [server EXCEPT ![record.id] = <<[@[1] EXCEPT !.files = @ \cup {path}]>>]
      register == <<Request("POST", record.id, "files")>>
      content == <<Request("PUT", record.id, "content")>>
      commit == <<Request("POST", record.id, "commit")>>
  IN  IF raise_error_if_not_draft(record)
        THEN {ZenRaise("Record is not a draft.", server, <<>>)}
      ELSE IF ~has_token THEN {ZenRaise("Missing access token", server, <<>>)}
      ELSE {ZenRaise("Error", server, register),
            ZenRaise("Error", registered, register \o content),
            ZenRaise("Error", registered, register \o content \o commit),
            ZenReturn(<<[key |-> path]>>, registered, register \o content \o commit)}

\* reserve_draft_doi(record) (lines 580-591): a record that has a DOI is returned
\* as it is, without a request
reserve_draft_doi(has_token, server, record) ==
  LET done == [server EXCEPT ![record.id] = <<[@[1] EXCEPT !.doi = <<DraftDoi>>]>>]
      post == <<Request("POST", record.id, "reserve_doi")>>
  IN  IF raise_error_if_not_draft(record)
        THEN {ZenRaise("Record is not a draft.", server, <<>>)}
      ELSE IF record.doi # <<>> THEN {ZenReturn(<<record>>, server, <<>>)}
      ELSE IF ~has_token THEN {ZenRaise("Missing access token", server, <<>>)}
      ELSE {ZenRaise("Error", server, post),
            ZenReturn(<<ResponseOf(done, record.id)>>, done, post)}

\* find_record(q='glenglat', allversions=False) (lines 464-487): None is <<>>
find_record(has_token, server) ==
  LET get == <<Request("GET", "records", "search")>>
  IN  IF ~has_token THEN {ZenRaise("Missing access token", server, <<>>)}
      ELSE {ZenRaise("Error", server, get)}
           \cup (IF server.published = <<>> THEN {ZenReturn(<<>>, server, get)}
                 ELSE IF server.extra THEN {ZenRaise("Multiple records found", server, get)}
                 ELSE {ZenReturn(<<ResponseOf(server, "published")>>, server, get)})

\* create_draft() (lines 452-461)
create_draft(has_token, server) ==
  LET done == [server EXCEPT !.draft = <<ZenRecord("", {}, "", <<>>)>>]
      post == <<Request("POST", "records", "create")>>
  IN  IF ~has_token THEN {ZenRaise("Missing access token", server, <<>>)}
      ELSE {ZenRaise("Error", server, post),
            ZenReturn(<<ResponseOf(done, "draft")>>, done, post)}

\* create_or_get_new_version_draft(record) (lines 490-499): the server returns the
\* draft of the new version when there is one, or makes one from the record, with
\* or without its files
create_or_get_new_version_draft(has_token, server, record) ==
  LET post == <<Request("POST", record.id, "versions")>>
      made == IF server.draft # <<>> THEN {server}
              ELSE {[server EXCEPT !.draft =
                       <<ZenRecord("", files, server[record.id][1].metadata, <<>>)>>] :
                      files \in {{}, server[record.id][1].files}}
  IN  IF ~has_token THEN {ZenRaise("Missing access token", server, <<>>)}
      ELSE {ZenRaise("Error", server, post)}
           \cup {ZenReturn(<<ResponseOf(done, "draft")>>, done, post) : done \in made}

\* is_repo_publishable() (lines 594-628): the first check that fails raises
is_repo_publishable(repo) ==
  IF repo.branch # "main" THEN [kind |-> "error", value |-> "Repository is on branch"]
  ELSE IF repo.dirty THEN [kind |-> "error", value |-> "Repository has uncommitted changes"]
  ELSE IF ~repo.pytest THEN [kind |-> "error", value |-> "Pytest tests failed"]
  ELSE IF ~repo.frictionless THEN [kind |-> "error", value |-> "Frictionless tests failed"]
  ELSE IF repo.tag_in_use THEN [kind |-> "error", value |-> "Tag is already in use"]
  ELSE [kind |-> "return", value |-> "commit and tag"]

----------------------------------------------------------------------------
(* Calls of the operations on a draft, in any order *)

\* the record dicts a caller holds: the record as the server returns it, or without
\* the is_draft key, or as returned before a DOI was reserved
RecordArgs(server) ==
  UNION {{[ResponseOf(server, id) EXCEPT !.is_draft = is_draft, !.doi = doi] :
            is_draft \in {"missing", ResponseOf(server, id).is_draft},
            doi \in {<<>>, server[id][1].doi}} :
           id \in {i \in {"published", "draft"} : server[i] # <<>>}}

\* the call is recorded with its outcome, the server takes the state it leaves
DraftCalled(fn, record, o) ==
  /\ zen_call' = <<[fn |-> fn, record |-> record, kind |-> o.kind, value |-> o.value,
                    error |-> o.error, requests |-> o.requests]>>
  /\ zen_server' = o.server
  /\ UNCHANGED <<zen_token, zen_pc, zen_run>>

\* One call clear_draft(record).
ClearDraft ==
  /\ zen_pc = "calls"
  /\ \E record \in RecordArgs(zen_server) :
       \E o \in clear_draft(zen_token, zen_server, record) : DraftCalled("clear_draft", record, o)

\* One call edit_draft(record, metadata).
EditDraft ==
  /\ zen_pc = "calls"
  /\ \E record \in RecordArgs(zen_server), metadata \in {"", "new"} :
       \E o \in edit_draft(zen_token, zen_server, record, metadata) :
         DraftCalled("edit_draft", record, o)

\* One call add_file_to_draft(record, path).
AddFileToDraft ==
  /\ zen_pc = "calls"
  /\ \E record \in RecordArgs(zen_server) :
       \E o \in add_file_to_draft(zen_token, zen_server, record, "glenglat.zip") :
         DraftCalled("add_file_to_draft", record, o)

\* One call reserve_draft_doi(record).
ReserveDraftDoi ==
  /\ zen_pc = "calls"
  /\ \E record \in RecordArgs(zen_server) :
       \E o \in reserve_draft_doi(zen_token, zen_server, record) :
         DraftCalled("reserve_draft_doi", record, o)

\* a published record, and a draft in any state
InitDraftCalls ==
  /\ zen_token \in BOOLEAN
  /\ zen_server \in
       {[published |-> <<ZenRecord("v1", {"old.zip"}, "old", <<"10.5281/zenodo.1">>)>>,
         draft |-> <<ZenRecord("", files, metadata, doi)>>,
         extra |-> FALSE] :
          files \in SUBSET {"old.zip", "glenglat.zip"}, metadata \in {"", "old"},
          doi \in {<<>>, <<DraftDoi>>}}
  /\ zen_call = <<>>
  /\ zen_pc = "calls"
  /\ zen_run = <<>>

----------------------------------------------------------------------------
(* publish_to_zenodo, one call after the other *)

\* the states of the repository that is_repo_publishable looks at
Repos ==
  [branch : {"main", "dev"}, dirty : BOOLEAN, pytest : BOOLEAN, frictionless : BOOLEAN,
   tag_in_use : BOOLEAN]

\* the call fn was made: its requests are added to those of the run
Ran(fn, o) ==
  [zen_run EXCEPT !.calls = @ \o <<fn>>, !.requests = @ \o o.requests]

\* an exception ends publish_to_zenodo
Failed(run, error) ==
  /\ zen_run' = [run EXCEPT !.error = <<error>>]
  /\ zen_pc' = "failed"

\* lines 645-647: render_zenodo_metadata
RenderMetadata ==
  /\ zen_pc = "render"
  /\ zen_run' = [zen_run EXCEPT !.version = <<PackageVersion>>]
  /\ zen_pc' = "check_repo"
  /\ UNCHANGED <<zen_server, zen_token, zen_call>>

\* A variant that goes on to the record search whatever the repository check finds.
CheckRepositoryIgnored ==
  /\ zen_pc = "check_repo"
  /\ zen_pc' = "find_record"
  /\ zen_run' = IF zen_run.sandbox THEN zen_run
                ELSE [zen_run EXCEPT !.calls = @ \o <<"is_repo_publishable">>]
  /\ UNCHANGED <<zen_server, zen_token, zen_call>>

\* lines 649-651: is_repo_publishable, not in the sandbox
CheckRepository ==
  /\ zen_pc = "check_repo"
  /\ IF zen_run.sandbox
       THEN zen_pc' = "find_record" /\ UNCHANGED zen_run
       ELSE LET checked == [zen_run EXCEPT !.calls = @ \o <<"is_repo_publishable">>]
            IN  IF is_repo_publishable(zen_run.repo).kind = "error"
                  THEN Failed(checked, is_repo_publishable(zen_run.repo).value)
                  ELSE zen_run' = checked /\ zen_pc' = "find_record"
  /\ UNCHANGED <<zen_server, zen_token, zen_call>>

\* lines 653-661: find_record, and the version of the record found
FindRecord ==
  /\ zen_pc = "find_record"
  /\ \E o \in find_record(zen_token, zen_server) :
       /\ zen_server' = o.server
       /\ IF o.kind = "error" THEN Failed(Ran("find_record", o), o.error)
          ELSE IF o.value = <<>>
            THEN zen_run' = Ran("find_record", o) /\ zen_pc' = "create_draft"
          ELSE IF o.value[1].version = zen_run.version[1]
            THEN Failed(Ran("find_record", o), "A record for this version already exists")
          ELSE /\ zen_run' = [Ran("find_record", o) EXCEPT !.record = o.value]
               /\ zen_pc' = "new_version"
  /\ UNCHANGED <<zen_token, zen_call>>

\* a call that returns the draft, and the step that follows it
DraftStep(fn, outcomes, next) ==
  \E o \in outcomes :
    /\ zen_server' = o.server
    /\ IF o.kind = "error" THEN Failed(Ran(fn, o), o.error)
       ELSE zen_run' = [Ran(fn, o) EXCEPT !.draft = o.value] /\ zen_pc' = next
    /\ UNCHANGED <<zen_token, zen_call>>

\* line 656: create_draft
CreateDraft ==
  /\ zen_pc = "create_draft"
  /\ DraftStep("create_draft", create_draft(zen_token, zen_server), "edit_draft")

\* line 666: create_or_get_new_version_draft
NewVersionDraft ==
  /\ zen_pc = "new_version"
  /\ DraftStep("create_or_get_new_version_draft",
               create_or_get_new_version_draft(zen_token, zen_server, zen_run.record[1]),
               "clear_draft")

\* line 667: clear_draft
ClearNewVersionDraft ==
  /\ zen_pc = "clear_draft"
  /\ DraftStep("clear_draft", clear_draft(zen_token, zen_server, zen_run.draft[1]),
               "edit_draft")

\* line 669: edit_draft with the metadata
EditMetadata ==
  /\ zen_pc = "edit_draft"
  /\ DraftStep("edit_draft", edit_draft(zen_token, zen_server, zen_run.draft[1], "new"),
               "reserve_doi")

\* line 671: reserve_draft_doi
ReserveDoi ==
  /\ zen_pc = "reserve_doi"
  /\ DraftStep("reserve_draft_doi", reserve_draft_doi(zen_token, zen_server, zen_run.draft[1]),
               "build")

\* lines 673-674: build_for_zenodo with the DOI of the draft; the build may fail
BuildForZenodo ==
  /\ zen_pc = "build"
  /\ \/ /\ zen_run' = [zen_run EXCEPT
                         !.calls = @ \o <<"build_for_zenodo">>,
                         !.archive = <<[path |-> "glenglat.zip",
                                        doi |-> <<"https://doi.org/", zen_run.draft[1].doi[1]>>]>>]
        /\ zen_pc' = "add_file"
     \/ Failed([zen_run EXCEPT !.calls = @ \o <<"build_for_zenodo">>], "Build failed")
  /\ UNCHANGED <<zen_server, zen_token, zen_call>>

\* line 675: add_file_to_draft; its result is not kept
AddFile ==
  /\ zen_pc = "add_file"
  /\ \E o \in add_file_to_draft(zen_token, zen_server, zen_run.draft[1],
                                zen_run.archive[1].path) :
       /\ zen_server' = o.server
       /\ IF o.kind = "error" THEN Failed(Ran("add_file_to_draft", o), o.error)
          ELSE zen_run' = Ran("add_file_to_draft", o) /\ zen_pc' = "done"
  /\ UNCHANGED <<zen_token, zen_call>>

\* the servers a run may meet: no record; a record of an earlier or of this
\* version, alone or with a second match; with or without a draft of a new version
PublishServers ==
  {[published |-> <<>>, draft |-> <<>>, extra |-> FALSE]}
  \cup {[published |-> <<ZenRecord(version, {"old.zip"}, "old", <<"10.5281/zenodo.1">>)>>,
         draft |-> draft, extra |-> extra] :
          version \in {"v1", "v2"}, extra \in BOOLEAN,
          draft \in {<<>>}
                    \cup {<<ZenRecord("", files, "old", doi)>> :
                            files \in SUBSET {"old.zip", "glenglat.zip"},
                            doi \in {<<>>, <<DraftDoi>>}}}

InitPublish ==
  /\ zen_token \in BOOLEAN
  /\ zen_server \in PublishServers
  /\ zen_call = <<>>
  /\ zen_pc = "render"
  /\ zen_run \in {[sandbox |-> sandbox, repo |-> repo, version |-> <<>>, record |-> <<>>,
                   draft |-> <<>>, archive |-> <<>>, error |-> <<>>, calls |-> <<>>,
                   requests |-> <<>>] :
                    sandbox \in BOOLEAN, repo \in Repos}

----------------------------------------------------------------------------
(* Specifications of the calls above *)

InitOldIdle ==
  /\ InitFindIdle /\ InitInferIdle /\ InitParseIdle /\ InitCslIdle /\ InitKeyIdle
  /\ InitJoinIdle

oldVars == <<findVars, inferVars, parseVars, cslVars, keyVars, joinVars>>

\* the variables of the active call start with its arguments, the others are idle
InitMore(active) ==
  /\ IF active = "src" THEN InitSrc ELSE InitSrcIdle
  /\ IF active = "essd" THEN InitEssd ELSE InitEssdIdle
  /\ IF active = "depth" THEN InitDepth ELSE InitDepthIdle
  /\ IF active = "subset" THEN InitSubset ELSE InitSubsetIdle
  /\ IF active = "draft" THEN InitDraftCalls
     ELSE IF active = "publish" THEN InitPublish ELSE InitZenIdle

\* the variables of the calls that are not active do not change
FrameMore(active) ==
  /\ IF active = "src" THEN TRUE ELSE UNCHANGED srcVars
  /\ IF active = "essd" THEN TRUE ELSE UNCHANGED essdVars
  /\ IF active = "depth" THEN TRUE ELSE UNCHANGED depthVars
  /\ IF active = "subset" THEN TRUE ELSE UNCHANGED subsetVars
  /\ IF active \in {"draft", "publish"} THEN TRUE ELSE UNCHANGED zenVars

InitC == InitOldIdle /\ InitMore("src")
NextC == ConvertSourceToCsl /\ UNCHANGED oldVars /\ FrameMore("src")

\* one source converted to CSL
SpecCsl == InitC /\ [][NextC]_vars

InitE == InitOldIdle /\ InitMore("essd")
NextE ==
  \/ RenderNameForEssd /\ UNCHANGED oldVars /\ FrameMore("essd")
  \/ FormatAuthorForEssd /\ UNCHANGED oldVars /\ FrameMore("essd")

\* one name, or one parsed person string, rendered for ESSD
SpecEssd == InitE /\ [][NextE]_vars

InitD == InitOldIdle /\ InitMore("depth")
NextD == InterpolateDepthTimeseries /\ UNCHANGED oldVars /\ FrameMore("depth")

\* one depth time series interpolated
SpecDepth == InitD /\ [][NextD]_vars

InitS == InitOldIdle /\ InitMore("subset")
NextS == BuildSubsetFromSelection /\ UNCHANGED oldVars /\ FrameMore("subset")

\* one data subset built from a selection
SpecSubset == InitS /\ [][NextS]_vars

InitZ == InitOldIdle /\ InitMore("draft")
NextZ ==
  \/ ClearDraft /\ UNCHANGED oldVars /\ FrameMore("draft")
  \/ EditDraft /\ UNCHANGED oldVars /\ FrameMore("draft")
  \/ AddFileToDraft /\ UNCHANGED oldVars /\ FrameMore("draft")
  \/ ReserveDraftDoi /\ UNCHANGED oldVars /\ FrameMore("draft")

\* the operations on a draft, called in any order
SpecDraft == InitZ /\ [][NextZ]_vars

InitU == InitOldIdle /\ InitMore("publish")
NextU ==
  \/ RenderMetadata /\ UNCHANGED oldVars /\ FrameMore("publish")
  \/ CheckRepository /\ UNCHANGED oldVars /\ FrameMore("publish")
  \/ FindRecord /\ UNCHANGED oldVars /\ FrameMore("publish")
  \/ CreateDraft /\ UNCHANGED oldVars /\ FrameMore("publish")
  \/ NewVersionDraft /\ UNCHANGED oldVars /\ FrameMore("publish")
  \/ ClearNewVersionDraft /\ UNCHANGED oldVars /\ FrameMore("publish")
  \/ EditMetadata /\ UNCHANGED oldVars /\ FrameMore("publish")
  \/ ReserveDoi /\ UNCHANGED oldVars /\ FrameMore("publish")
  \/ BuildForZenodo /\ UNCHANGED oldVars /\ FrameMore("publish")
  \/ AddFile /\ UNCHANGED oldVars /\ FrameMore("publish")

\* one run of publish_to_zenodo
SpecPublish == InitU /\ [][NextU]_vars

----------------------------------------------------------------------------
(* Claims about find_person and the registry *)

\* the registry as built from person.csv
Registry == build_person_list_body(csv)

\* the last operation was a find_person call
Called == call # <<>> /\ call[1].op = "find_person"

Args == call[1].args

MatchesOfCall == MatchIndices(Registry, Args.title, Args.orcid, Args.email)

C2_OrcidMismatchOrAdopt ==
  (Called /\ Cardinality(MatchesOfCall) = 1 /\ Args.orcid # None) =>
    LET person == Registry[CHOOSE i \in MatchesOfCall : TRUE]
    IN  IF person.orcid # None /\ person.orcid # Args.orcid
          THEN outcome[1] = [kind |-> "error", error |-> "ORCID mismatch", result |-> <<>>]
          ELSE /\ outcome[1].kind = "return"
               /\ Len(outcome[1].result) = 1
               /\ outcome[1].result[1].orcid = Args.orcid
               /\ outcome[1].result[1].latin = person.latin
               /\ (person.orcid = None =>
                     printed = <<[event |-> "ORCID missing", orcid |-> Args.orcid]>>)
               /\ (person.orcid # None => printed = <<>>)

\* an entry without ORCID was found by title and the caller's ORCID adopted and printed
C2_Witness ==
  /\ Called /\ Cardinality(MatchesOfCall) = 1 /\ Args.orcid # None
  /\ Registry[CHOOSE i \in MatchesOfCall : TRUE].orcid = None
  /\ outcome[1].kind = "return"
  /\ outcome[1].result[1].orcid = Args.orcid
  /\ printed # <<>>

\* the entries whose ORCID is the supplied one
OrcidMatchesOfCall ==
  {i \in 1..Len(Registry) : Args.orcid # None /\ Registry[i].orcid = Args.orcid}

\* C3: the keys are applied in strict priority and not merged: when one entry matches
\* the supplied ORCID, that entry is the result even when a different entry matches
\* the supplied email or title.
C3_StrictPriority ==
  (Called /\ Cardinality(OrcidMatchesOfCall) = 1) =>
    /\ outcome[1].kind = "return"
    /\ Len(outcome[1].result) = 1
    /\ outcome[1].result[1].latin = Registry[CHOOSE i \in OrcidMatchesOfCall : TRUE].latin

\* C4: the registry is built at most once in a run, and after any sequence of
\* find_person and render_author_list calls every entry is as it was right after
\* construction (calls that adopt an ORCID and calls that fail included).
C4_RegistryReadOnly ==
  /\ builds <= 1
  /\ (cache = <<>> <=> builds = 0)
  /\ (cache # <<>> => cache[1] = Registry)

\* render_author_list adopted a caller's ORCID for an entry that has none
C4_Witness ==
  /\ call # <<>> /\ call[1].op = "render_author_list"
  /\ printed # <<>>
  /\ outcome[1].kind = "return"
  /\ \E i \in 1..Len(Registry) : Registry[i].orcid = None /\ Title1 \in Registry[i].titles
  /\ cache # <<>>

\* C5: find_person is deterministic: the same (title, orcid, email) against the same
\* registry gives the same outcome as the remembered earlier call, whatever other
\* calls were made in between.
C5_Deterministic ==
  (memo # <<>> /\ Args = memo[1].args) => outcome[1] = memo[1].outcome

\* a call that adopted an ORCID is repeated after a different call in between
C5_Witness ==
  /\ memo # <<>> /\ memo[1].between /\ Args = memo[1].args
  /\ printed # <<>>
  /\ outcome[1].kind = "return" /\ outcome[1].result # <<>>

----------------------------------------------------------------------------
(* Claims about parse_person_string *)

Accepted == parsed # <<>> /\ parsed[1].kind = "return"
Rejected == parsed # <<>> /\ parsed[1].kind = "error" /\ parsed[1].value = <<>>
Result == parsed[1].value[1]

\* the raw token: its bracketed form, the text before it, the identifier
HasBracket == HasAny(token, {"["})
TextBeforeBracket == Slice(token, 1, FirstIn(token, 1, {"["}) - 2)
BracketedText == Slice(token, FirstIn(token, 1, {"["}) + 1, FirstIn(token, 1, {"]"}) - 1)
HasIdentifier == HasAny(token, {"("})
OnlyPhrase ==
  IF HasIdentifier THEN Slice(token, 1, FirstIn(token, 1, {"("}) - 2) ELSE token
IdentifierText == Slice(token, FirstIn(token, 1, {"("}) + 1, Len(token) - 1)

\* C6 as stated: for every accepted token 'name' is non-null iff the token has a
\* bracketed Latin form; then 'name' holds the text before the bracket and 'latin' the
\* bracketed text; otherwise 'latin' holds the only phrase and 'name' is None.
C6_SidesAsWritten ==
  Accepted =>
    /\ (Result.name # <<>> <=> HasBracket)
    /\ (HasBracket =>
          Result.name[1].name = TextBeforeBracket /\ Result.latin.name = BracketedText)
    /\ (~HasBracket => Result.latin.name = OnlyPhrase /\ Result.name = <<>>)

\* C6 amended: as C6, the texts taken with their curly braces removed.
C6_SidesBracesRemoved ==
  Accepted =>
    /\ (Result.name # <<>> <=> HasBracket)
    /\ (HasBracket =>
          /\ Result.name[1].name = strip_curly_braces(TextBeforeBracket)
          /\ Result.latin.name = strip_curly_braces(BracketedText))
    /\ (~HasBracket =>
          Result.latin.name = strip_curly_braces(OnlyPhrase) /\ Result.name = <<>>)

\* an accepted token with a Cyrillic name and a bracketed Latin form
C6_Witness ==
  /\ Accepted /\ HasBracket
  /\ HasAny(TextBeforeBracket, CyrillicChars)
  /\ Result.name # <<>> /\ Result.name[1].name = TextBeforeBracket
  /\ Result.latin.name = BracketedText

\* C7: a token with an original and a bracketed Latin phrase, curly braces in one of
\* them and not in the other, is never parsed: parse_person_string raises.
C7_BracesOnOneSide ==
  (parsed # <<>> /\ HasBracket /\ HasBrace(TextBeforeBracket) # HasBrace(BracketedText))
    => Rejected

\* a token of the grammar whose original has the braces and whose Latin form has not
C7_Witness ==
  /\ parsed # <<>> /\ PersonMatch(token) # <<>> /\ HasBracket
  /\ parse_name_parts(TextBeforeBracket) # <<>> /\ ~HasBrace(BracketedText)
  /\ parsed[1].error = "Curly braces missing from original or latin name"

Count(s, c) == Cardinality({i \in 1..Len(s) : s[i] = c})

\* s marks a family name: one '{', one '}' after it, something in between
MarksFamily(s) ==
  /\ Count(s, "{") = 1 /\ Count(s, "}") = 1
  /\ FirstIn(s, 1, {"{"}) + 1 < FirstIn(s, 1, {"}"})

InsideBraces(s) == Slice(s, FirstIn(s, 1, {"{"}) + 1, FirstIn(s, 1, {"}"}) - 1)
OutsideBraces(s) ==
  Slice(s, 1, FirstIn(s, 1, {"{"}) - 1) \o Slice(s, FirstIn(s, 1, {"}"}) + 1, Len(s))

\* the name dict the claim describes for a side that marks its family name
MarkedSide(s) ==
  [name |-> strip_curly_braces(s), family |-> InsideBraces(s),
   given |-> squeeze_whitespace(OutsideBraces(s))]

\* C8: a token of the grammar that marks the family name with curly braces on every
\* side present is parsed without any heuristic: family is the text inside the
\* braces, given the squeezed rest, name and title have the braces removed, and an
\* ORCID is expanded to 'https://orcid.org/' and the identifier.
C8_BracesMarkFamily ==
  (parsed # <<>> /\ PersonMatch(token) # <<>>
   /\ IF HasBracket THEN MarksFamily(TextBeforeBracket) /\ MarksFamily(BracketedText)
      ELSE MarksFamily(OnlyPhrase)) =>
    /\ Accepted
    /\ IF HasBracket
         THEN /\ Result.name = <<MarkedSide(TextBeforeBracket)>>
              /\ Result.latin = MarkedSide(BracketedText)
              /\ Result.title = Result.name[1].name \o <<" ", "[">> \o Result.latin.name \o <<"]">>
         ELSE /\ Result.name = <<>>
              /\ Result.latin = MarkedSide(OnlyPhrase)
              /\ Result.title = Result.latin.name
    /\ ~HasBrace(Result.title)
    /\ (HasIdentifier /\ IsOrcid(IdentifierText) =>
          Result.orcid = <<OrcidUrlPrefix \o IdentifierText>> /\ Result.email = <<>>)
    /\ (~HasIdentifier => Result.orcid = <<>> /\ Result.email = <<>>)

\* a three-word Latin name, ambiguous without braces, parsed with its last two words
\* marked as the family name
C8_Witness ==
  /\ Accepted /\ ~HasBracket /\ MarksFamily(token)
  /\ Len(Split(token)) = 3
  /\ infer_name_parts(strip_curly_braces(token), <<>>).value = <<>>
  /\ Len(Split(Result.latin.family)) = 2
  /\ Result.latin.given = Split(token)[1]

\* an ORCID after a braced name was expanded
C8_WitnessOrcid ==
  /\ Accepted /\ MarksFamily(OnlyPhrase) /\ HasIdentifier
  /\ Result.orcid = <<OrcidUrlPrefix \o IdentifierText>>

----------------------------------------------------------------------------
(* Claims about infer_name_parts *)

Inferred == inferred # <<>>
Split0 == inferred[1].value
NoEmptyWord(s) == \A i \in 1..Len(Split(s)) : Split(s)[i] # <<>>

\* some two consecutive words neither of which ends with a period
HasPlainPair(words) ==
  \E i \in 1..(Len(words) - 1) : ~EndsWithPeriod(words[i]) /\ ~EndsWithPeriod(words[i + 1])

\* every word starts with a letter
WordsOfLetters(s) ==
  \A i \in 1..Len(Split(s)) : Split(s)[i] # <<>> /\ Split(s)[i][1] \in LatinLetters

\* C9: for a Latin-only name (of words that start with a letter) infer_name_parts
\* returns the last word as family and the words before it as given, except that it
\* fails when (a) the name has more than two words and two consecutive words are both
\* not abbreviations, or (b) the last word ends with a period.
C9_LatinOnlySplit ==
  (Inferred /\ name = <<>> /\ WordsOfLetters(latin)) =>
    LET words == Split(latin)
    IN  IF \/ (Len(words) > 2 /\ HasPlainPair(words))
           \/ EndsWithPeriod(words[Len(words)])
          THEN inferred[1].kind = "return" /\ Split0 = <<>>
          ELSE /\ inferred[1].kind = "return" /\ Split0 # <<>>
               /\ Split0[1].latin.family = words[Len(words)]
               /\ Split0[1].latin.given = Join(ButLast(words))

IsCyrillic(nm) == HasAny(nm, CyrillicChars)

CyrillicSplit(nm, lat) ==
  [name   |-> <<[given |-> Join(ButLast(Split(nm))), family |-> Split(nm)[Len(Split(nm))]]>>,
   latin  |-> [given |-> Join(ButLast(Split(lat))), family |-> Split(lat)[Len(Split(lat))]],
   script |-> "cyrillic"]

\* C10 as stated: for a Cyrillic original infer_name_parts succeeds whenever the
\* original and the Latin form have the same number of words (last word family, the
\* words before it given, script 'cyrillic'), and reports the split as ambiguous,
\* returning none, when the numbers differ.
C10_SameCountSucceeds ==
  (Inferred /\ name # <<>> /\ IsCyrillic(name[1])) =>
    IF Len(Split(name[1])) = Len(Split(latin))
      THEN inferred[1].kind = "return" /\ Split0 = <<CyrillicSplit(name[1], latin)>>
      ELSE inferred[1].kind = "error" /\ Split0 = <<>>

\* C10 amended: it succeeds whenever the two have the same number of words and that
\* number is at least two; a single-word original, like differing numbers, is
\* reported as ambiguous and no split is returned.
C10_SameCountOfTwoSucceeds ==
  (Inferred /\ name # <<>> /\ IsCyrillic(name[1])) =>
    IF Len(Split(name[1])) = Len(Split(latin)) /\ Len(Split(name[1])) >= 2
      THEN inferred[1].kind = "return" /\ Split0 = <<CyrillicSplit(name[1], latin)>>
      ELSE /\ inferred[1].kind = "error" /\ Split0 = <<>>
           /\ inferred[1].error = "Cyrillic name is ambiguous"

\* a two-word Cyrillic name with a two-word Latin form was split
C10_Witness ==
  /\ Inferred /\ name # <<>> /\ IsCyrillic(name[1])
  /\ NoEmptyWord(name[1]) /\ NoEmptyWord(latin)
  /\ Len(Split(name[1])) = 2 /\ Len(Split(latin)) = 2
  /\ Split0 # <<>> /\ Split0[1].script = "cyrillic"
  /\ Split0[1].name[1].family = Split(name[1])[2]

\* the split of a name whose family name is its first character, with the first
\* word of the Latin form as the Latin family name and the second as the given name
FirstCharacterSplit(nm, lat, script) ==
  [name   |-> <<[family |-> <<nm[1]>>, given |-> Slice(nm, 2, Len(nm))]>>,
   latin  |-> [family |-> Split(lat)[1], given |-> Split(lat)[2]],
   script |-> script]

\* C11: for an original that is one unspaced run of CJK ideographs infer_name_parts
\* returns family = first character, given = the remaining characters, Latin family =
\* first word, Latin given = second word, script 'chinese', when the Latin form has
\* exactly two words, and no split with any other number of Latin words.
C11_ChineseSplit ==
  (Inferred /\ name # <<>> /\ AllIn(name[1], HanChars)) =>
    /\ inferred[1].kind = "return"
    /\ IF Len(Split(latin)) = 2
         THEN Split0 = <<FirstCharacterSplit(name[1], latin, "chinese")>>
         ELSE Split0 = <<>>

\* a run of three ideographs with a Latin form of two words was split
C11_Witness ==
  /\ Inferred /\ name # <<>> /\ AllIn(name[1], HanChars) /\ Len(name[1]) = 3
  /\ NoEmptyWord(latin) /\ Len(Split(latin)) = 2
  /\ Split0 # <<>> /\ Split0[1].script = "chinese"
  /\ Len(Split0[1].name[1].given) = 2

\* a space-separated original with ideographs (Kanji), or an original of Kana
IsKanji(nm) == HasAny(nm, HanChars) /\ ~HasAny(nm, CyrillicChars) /\ HasAny(nm, {" "})
IsKana(nm) == HasAny(nm, KanaChars) /\ AllIn(nm, KanaChars \cup {" "})

\* C12: for a Kanji or a Kana original infer_name_parts returns the first word of the
\* original and of the Latin form as family and the second word of each as given when
\* both have exactly two words, and no split with any other number of words on
\* either side.
C12_FirstWordFamily ==
  (Inferred /\ name # <<>> /\ (IsKanji(name[1]) \/ IsKana(name[1]))) =>
    /\ inferred[1].kind = "return"
    /\ IF Len(Split(name[1])) = 2 /\ Len(Split(latin)) = 2
         THEN /\ Split0 # <<>>
              /\ Split0[1].name = <<[family |-> Split(name[1])[1], given |-> Split(name[1])[2]]>>
              /\ Split0[1].latin = [family |-> Split(latin)[1], given |-> Split(latin)[2]]
         ELSE Split0 = <<>>

\* a Kana original of two words with a Latin form of two words was split
C12_Witness ==
  /\ Inferred /\ name # <<>> /\ IsKana(name[1])
  /\ NoEmptyWord(name[1]) /\ NoEmptyWord(latin)
  /\ Len(Split(name[1])) = 2 /\ Len(Split(latin)) = 2
  /\ Split0 # <<>> /\ Split0[1].script = "kana"
  /\ Split0[1].latin.family = Split(latin)[1]

IsHangul(nm) == HasAny(nm, HangulChars) /\ AllIn(nm, HangulChars \cup {" "})

\* C13: for a Hangul original infer_name_parts returns a split (family = first
\* character, given = the rest, Latin family = first word) only when the original is
\* one unspaced word and the Latin form has exactly two words; with one or more than
\* two Latin words it returns no split.
C13_HangulTwoLatinWords ==
  (Inferred /\ name # <<>> /\ IsHangul(name[1])) =>
    /\ inferred[1].kind = "return"
    /\ IF Len(Split(name[1])) = 1 /\ Len(Split(latin)) = 2
         THEN Split0 = <<FirstCharacterSplit(name[1], latin, "hangul")>>
         ELSE Split0 = <<>>

----------------------------------------------------------------------------
(* Claims about the errors of parse_person_string *)

\* a token of the grammar without curly braces whose original-script text, before the
\* bracketed Latin form, is of words of a script that is not supported
UnsupportedOriginal ==
  /\ parsed # <<>> /\ PersonMatch(token) # <<>> /\ ~HasBrace(token)
  /\ HasBracket /\ AllIn(TextBeforeBracket, OtherChars \cup {" "})

----------------------------------------------------------------------------
(* Claims about render_author_list *)

Rendered == rendered # <<>>
Out == rendered[1]

\* the distinct author strings, in input order
AuthorStrings == DropDuplicates(authors)

ParsesOf(string) == parse_person_string(string).kind = "return"

\* the registry entries an author string that parses matches
MatchesOfString(string) ==
  LET person == parse_person_string(string).value[1]
  IN  MatchIndices(Registry, Str(person.title), KeyOf(person.orcid), KeyOf(person.email))

\* the author string matches several entries, or one entry with another ORCID
ConflictOf(string) ==
  LET person == parse_person_string(string).value[1]
      matches == MatchesOfString(string)
  IN  \/ Cardinality(matches) > 1
      \/ /\ Cardinality(matches) = 1 /\ person.orcid # <<>>
         /\ \E i \in matches : Registry[i].orcid \notin {None, KeyOf(person.orcid)}

ResolvesOf(string) == ParsesOf(string) /\ ~ConflictOf(string)
UnmatchedOf(string) == ResolvesOf(string) /\ MatchesOfString(string) = {}
FoundOf(string) == ResolvesOf(string) /\ MatchesOfString(string) # {}
EntryOf(string) == Registry[CHOOSE i \in MatchesOfString(string) : TRUE]

\* C15: if every author string parses and resolves without conflict but at least one
\* has no registry match, render_author_list returns no list and raises one not-found
\* error that names exactly the unmatched author strings, each once, in input order;
\* it returns a list only when every author string was found.
C15_NotFoundListsAllMissing ==
  Rendered =>
    /\ ((\A n \in 1..Len(AuthorStrings) : ResolvesOf(AuthorStrings[n]))
         /\ (\E n \in 1..Len(AuthorStrings) : UnmatchedOf(AuthorStrings[n]))) =>
          /\ Out.kind = "error" /\ Out.error = "People not found"
          /\ Out.strings = <<>>
          /\ Out.missing = SelectSeq(AuthorStrings, UnmatchedOf)
    /\ (Out.kind = "return" => \A n \in 1..Len(AuthorStrings) : FoundOf(AuthorStrings[n]))

\* two different author strings without a registry match were reported, in input
\* order, by a registry that is not empty
C15_Witness ==
  /\ Rendered /\ Len(Registry) > 0
  /\ Out.kind = "error" /\ Out.error = "People not found"
  /\ Len(Out.missing) = 2 /\ Out.missing[1] # Out.missing[2]
  /\ Out.missing = authors

\* the person strings of source.csv in the order render_sources_as_csl parses them
RECURSIVE PersonStrings(_)
PersonStrings(rows) ==
  IF rows = <<>> THEN <<>>
  ELSE Head(rows).author \o Head(rows).editor \o PersonStrings(Tail(rows))

\* the author string is malformed or ambiguous, or in conflict with the registry
FailsOf(string) == ~ParsesOf(string) \/ ConflictOf(string)
OffendingOf(string) == FailsOf(string) \/ UnmatchedOf(string)
NotParsesOf(string) == ~ParsesOf(string)

SetOf(strings) == {strings[n] : n \in 1..Len(strings)}

FormatOf(string) == FormatPerson(EntryOf(string))[1]
FirstOf(k) ==
  CHOOSE n \in 1..Len(AuthorStrings) :
    /\ FormatOf(AuthorStrings[n]) = Out.strings[k]
    /\ \A m \in 1..(n - 1) : FormatOf(AuthorStrings[m]) # Out.strings[k]
KeyAt(k) == SortKey(EntryOf(AuthorStrings[FirstOf(k)]))

\* the returned entries are in the order of their sort keys, and in input order
\* where the keys are equal
OrderedByKey ==
  \A k, l \in 1..Len(Out.strings) :
    k < l => \/ KeyLess(KeyAt(k), KeyAt(l))
             \/ (KeyAt(k) = KeyAt(l) /\ FirstOf(k) < FirstOf(l))

\* C17: the returned list is ordered by sort key regardless of input order: of two
\* entries the one whose person has the smaller (uppercase(strip_diacritics(family)),
\* uppercase(strip_diacritics(given))) comes first, and persons with equal keys keep
\* their input order.
C17_SortedByKey ==
  (Rendered /\ Out.kind = "return") =>
    /\ \A k \in 1..Len(Out.strings) :
         \E n \in 1..Len(AuthorStrings) : FormatOf(AuthorStrings[n]) = Out.strings[k]
    /\ OrderedByKey

\* two persons were returned in the reverse of their input order, the key of the
\* first holding a letter stripped of its diacritic
C17_Witness ==
  /\ Rendered /\ Out.kind = "return" /\ Len(Out.strings) = 2
  /\ FirstOf(1) = 2 /\ FirstOf(2) = 1
  /\ KeyAt(1)[1] = <<"A">> /\ KeyAt(2)[1] = <<"B">>

\* two persons with equal keys were returned in their input order, the second
\* string being the smaller one
C17_WitnessEqualKeys ==
  /\ Rendered /\ Out.kind = "return" /\ Len(Out.strings) = 2
  /\ KeyAt(1) = KeyAt(2) /\ StrLess(Out.strings[2], Out.strings[1])

\* the strings of the persons the author strings resolve to
FormatsOfAuthors == {FormatOf(AuthorStrings[n]) : n \in 1..Len(AuthorStrings)}

NoTwoEqual(strings) ==
  \A k, l \in 1..Len(strings) : k # l => strings[k] # strings[l]

\* C18 as stated: author strings that resolve to the same registry entry contribute
\* exactly one entry, author strings that resolve to different registry entries
\* contribute different entries, and the returned list has no two equal strings, each
\* kept at its first position in sorted order.
C18_DedupByIdentity ==
  (Rendered /\ Out.kind = "return") =>
    /\ NoTwoEqual(Out.strings)
    /\ OrderedByKey
    /\ {Out.strings[k] : k \in 1..Len(Out.strings)} = FormatsOfAuthors
    /\ \A n, m \in 1..Len(AuthorStrings) :
         (MatchesOfString(AuthorStrings[n]) = MatchesOfString(AuthorStrings[m]))
           <=> FormatOf(AuthorStrings[n]) = FormatOf(AuthorStrings[m])

\* C18 amended: author strings that resolve to the same registry entry contribute
\* exactly one entry; author strings that resolve to different registry entries
\* contribute different entries unless the entries render as the same string (the
\* same Latin name, family name and original name), which then contribute one entry;
\* the returned list has no two equal strings, each kept at its first position in
\* sorted order.
C18_DedupByString ==
  (Rendered /\ Out.kind = "return") =>
    /\ NoTwoEqual(Out.strings)
    /\ OrderedByKey
    /\ {Out.strings[k] : k \in 1..Len(Out.strings)} = FormatsOfAuthors
    /\ \A n, m \in 1..Len(AuthorStrings) :
         (MatchesOfString(AuthorStrings[n]) = MatchesOfString(AuthorStrings[m]))
           => FormatOf(AuthorStrings[n]) = FormatOf(AuthorStrings[m])

\* two different author strings that resolve to one registry entry gave one entry
C18_Witness ==
  /\ Rendered /\ Out.kind = "return"
  /\ Len(AuthorStrings) = 2 /\ Len(Out.strings) = 1
  /\ MatchesOfString(AuthorStrings[1]) = MatchesOfString(AuthorStrings[2])


----------------------------------------------------------------------------
(* Claims about the sort key *)

\* the letter of a character, its diacritical mark and its case left aside
BaseLetter(c) ==
  CASE c \in {"a", "A", "a_ring", "A_ring"} -> "a"
    [] c \in {"q", "Q", "q_hook", "Q_hook"} -> "q"
    [] OTHER -> c

\* two names that differ only in diacritical marks or in case
SameLetters(x, y) ==
  Len(x) = Len(y) /\ \A i \in 1..Len(x) : BaseLetter(x[i]) = BaseLetter(y[i])

\* C19: the sort key is invariant to diacritics and letter case: two names that
\* differ only in diacritical marks or in case have equal sort keys;
\* strip_diacritics leaves every character whose Unicode name has no ' WITH '
\* unchanged and preserves the length of the string.
C19_KeyIgnoresDiacriticsAndCase ==
  sortkey # <<>> =>
    /\ sortkey[1].kind = "return"
    /\ \A other \in Strings(KeyChars \ NamelessChars, MaxKeyLen) :
         SameLetters(surname, other) =>
           sort_key(other, forename).value = sortkey[1].value
    /\ Len(strip_diacritics(surname)) = Len(surname)
    /\ \A i \in 1..Len(surname) :
         surname[i] \notin WithLetters => strip_diacritics(surname)[i] = surname[i]

----------------------------------------------------------------------------
(* Claims about the English list *)

\* the names the function called joins: the pieces of the string, without their
\* ORCID in zenodo.py
JoinedNames ==
  LET pieces == SplitSep(piped, Pipe)
  IN  IF english[1].fn = "zenodo"
        THEN [i \in 1..Len(pieces) |-> strip_orcid(pieces[i])]
        ELSE pieces

\* what stands between name i and name i + 1 in a list of n names
GapOf(i, n) == IF n = 2 THEN And ELSE IF i = n - 1 THEN CommaAnd ELSE CommaSpace

\* where name i starts in the list
RECURSIVE StartOf(_, _)
StartOf(names, i) ==
  IF i = 1 THEN 1
  ELSE StartOf(names, i - 1) + Len(names[i - 1]) + Len(GapOf(i - 1, Len(names)))

\* C20: the English list join returns the single name unchanged for one name,
\* 'A and B' for two, and for three or more names the first n-1 joined by ', '
\* followed by ', and ' and the last name; the names stand in input order and
\* every input name appears exactly once.
C20_EnglishListJoin ==
  (english # <<>> /\ english[1].value # <<>>) =>
    LET names == JoinedNames
        n == Len(names)
        list == english[1].value[1]
    IN  /\ n = 1 => list = names[1]
        /\ n = 2 => list = names[1] \o And \o names[2]
        /\ Len(list) = StartOf(names, n) + Len(names[n]) - 1
        /\ \A i \in 1..n :
             Slice(list, StartOf(names, i), StartOf(names, i) + Len(names[i]) - 1) = names[i]
        /\ \A i \in 1..(n - 1) :
             Slice(list, StartOf(names, i) + Len(names[i]), StartOf(names, i + 1) - 1)
               = GapOf(i, n)

\* three names, one of them with an ORCID, were joined by zenodo.py
C20_Witness ==
  /\ english # <<>> /\ english[1].fn = "zenodo"
  /\ piped = <<"a">> \o Pipe \o WithOrcid(<<"b">>, OrcidText1) \o Pipe \o AuthorBA
  /\ english[1].value = <<<<"a", ",", " ", "b", ",", " ", "a", "n", "d", " ", "b", " ", "a">>>>

----------------------------------------------------------------------------
(* Claims about convert_source_to_csl *)

Converted == src_csl # <<>> /\ src_csl[1].kind = "return"
Csl == src_csl[1].value

\* the list under a key of the CSL dict, empty when the key is absent
ListOf(key) == IF Csl[key] = <<>> THEN <<>> ELSE Csl[key][1]

\* the parts of a person string as written: without its identifier, the text before
\* the bracket, the text in the bracket
WrittenTitle(tok) ==
  IF HasAny(tok, {"("}) THEN Slice(tok, 1, FirstIn(tok, 1, {"("}) - 2) ELSE tok
WrittenOriginal(tok) == Slice(tok, 1, FirstIn(tok, 1, {"["}) - 2)
WrittenLatin(tok) == Slice(tok, FirstIn(tok, 1, {"["}) + 1, FirstIn(tok, 1, {"]"}) - 1)

\* the name object the claim describes for one person string
NameObjectOf(tok, mode) ==
  LET person == parse_person_string(tok).value[1]
  IN  IF HasAny(tok, {"["})
        THEN IF mode = "literal"
               THEN [literal |-> <<strip_curly_braces(WrittenOriginal(tok)) \o <<" ", "[">>
                                    \o strip_curly_braces(WrittenLatin(tok)) \o <<"]">>>>,
                     family |-> <<>>, given |-> <<>>]
               ELSE [literal |-> <<>>,
                     family |-> <<person.latin.family>>,
                     given |-> <<person.latin.given \o <<" ", "[">>
                                  \o strip_curly_braces(WrittenOriginal(tok)) \o <<"]">>>>]
        ELSE [literal |-> <<>>,
              family |-> <<person.latin.family>>, given |-> <<person.latin.given>>]

\* C21: each author and editor token becomes one name object, in token order: with
\* an original-script form, mode 'literal' gives {literal: '<original> [<latin>]'}
\* (braces stripped) and mode 'given' gives {family: latin family, given: '<latin
\* given> [<original full name>]'}; without an original form the object is
\* {family, given} of the Latin form in either mode.
C21_NameObjects ==
  Converted =>
    \A key \in {"author", "editor"} :
      /\ Len(ListOf(key)) = Len(src_row[key])
      /\ \A i \in 1..Len(src_row[key]) :
           ListOf(key)[i] = NameObjectOf(src_row[key][i], src_mode)

\* two authors were converted in mode 'given', the first with curly braces and an
\* original form, the second Latin only
C21_Witness ==
  /\ Converted /\ src_mode = "given" /\ Len(ListOf("author")) = 2
  /\ HasAny(src_row.author[1], {"{"}) /\ HasAny(src_row.author[1], {"["})
  /\ ListOf("author")[1].given = <<<<"a", " ", "[", "ya", " ", "ya", "]">>>>
  /\ ListOf("author")[2] = [literal |-> <<>>, family |-> <<<<"b">>>>, given |-> <<<<"a">>>>]

\* C22 as stated: type 'personal-communication' becomes 'personal_communication', and
\* the title 'Personal communication' is used only when the source has no title of
\* its own: a personal communication that has a title keeps it.
C22_PersonalCommunicationTitle ==
  (Converted /\ src_row.type = "personal-communication") =>
    /\ Csl.type = <<"personal_communication">>
    /\ Csl.title = IF Truthy(src_row.title) THEN src_row.title
                   ELSE <<"Personal communication">>

\* C23 as stated: the CSL object holds only keys with a truthy value and never both
\* 'DOI' and 'URL': when the url starts with 'https://doi.org/' it has 'DOI' equal to
\* the text after that prefix and no 'URL'; otherwise it has no 'DOI', and 'URL'
\* equal to the url when one is set.
C23_DoiOrUrl ==
  Converted =>
    /\ \A key \in DOMAIN Csl : Csl[key] # <<>> => Truthy(Csl[key])
    /\ ~(Csl.DOI # <<>> /\ Csl.URL # <<>>)
    /\ IF Truthy(src_row.url) /\ MatchesAt(src_row.url[1], 1, DoiPrefix)
         THEN /\ Csl.DOI = <<Slice(src_row.url[1], Len(DoiPrefix) + 1, Len(src_row.url[1]))>>
              /\ Csl.URL = <<>>
         ELSE /\ Csl.DOI = <<>>
              /\ Csl.URL = IF Truthy(src_row.url) THEN src_row.url ELSE <<>>

----------------------------------------------------------------------------
(* Claims about the ESSD name rendering *)

NameRendered == essd_name # <<>> /\ essd_out # <<>>
AuthorFormatted == essd_token # <<>> /\ essd_out # <<>>

AnyLatinLetters == LatinLetters \cup CapitalLetters \cup WithLetters \cup {"q"}
\* every letter of the string is Latin or Cyrillic
IsLatinOrCyrillic(string) ==
  ~HasAny(string, HanChars \cup HangulChars \cup KanaChars \cup OtherChars)
\* the string has Han, Hangul or kana letters and no letter of another script
IsOtherScript(string) ==
  /\ HasAny(string, HanChars \cup HangulChars \cup KanaChars)
  /\ ~HasAny(string, AnyLatinLetters \cup CyrillicChars \cup OtherChars)

\* the spaces and hyphens of a string, in order
RECURSIVE SeparatorsOf(_)
SeparatorsOf(string) ==
  IF string = <<>> THEN <<>>
  ELSE (IF string[1] \in {" ", "-"} THEN <<string[1]>> ELSE <<>>)
       \o SeparatorsOf(Tail(string))

\* the words of a string between its spaces and hyphens, in order
RECURSIVE WordsOf(_)
WordsOf(string) ==
  IF ~HasAny(string, {" ", "-"}) THEN <<string>>
  ELSE LET i == FirstIn(string, 1, {" ", "-"})
       IN  <<Slice(string, 1, i - 1)>> \o WordsOf(Slice(string, i + 1, Len(string)))

\* text is the given name abbreviated as the claim describes
IsAbbreviationOf(text, given) ==
  /\ SeparatorsOf(text) = SeparatorsOf(given)
  /\ Len(WordsOf(text)) = Len(WordsOf(given))
  /\ \A i \in 1..Len(WordsOf(given)) :
       LET word == WordsOf(given)[i]
       IN  WordsOf(text)[i] = IF Len(word) > 1 /\ word[Len(word)] # "."
                                THEN <<word[1], ".">> ELSE word

\* C24: render_name_for_essd renders a Latin or Cyrillic name as '<family>,
\* <abbreviated given>', where every space- or hyphen-separated word of the given
\* name that has more than one character and does not end in a period becomes its
\* first character plus a period, the other words and all separators staying as
\* they are; a name of any other script is returned in full, unchanged.
C24_RenderNameForEssd ==
  NameRendered =>
    LET dict == essd_name[1]
        out == essd_out[1]
    IN  /\ IsLatinOrCyrillic(dict.name) =>
             /\ out.kind = "return"
             /\ Len(out.value) >= Len(dict.family) + 2
             /\ Slice(out.value, 1, Len(dict.family) + 2) = dict.family \o <<",", " ">>
             /\ IsAbbreviationOf(Slice(out.value, Len(dict.family) + 3, Len(out.value)),
                                 dict.given)
        /\ IsOtherScript(dict.name) => out = EssdReturn(dict.name)

\* a Latin name with a hyphenated word, an abbreviated word and a one-letter word
\* in its given name was rendered
C24_Witness ==
  /\ NameRendered
  /\ essd_name[1].given = <<"a", "b", "-", "b", "a", " ", "a", "-", "b", ".">>
  /\ essd_name[1].family = <<"b", " ", "a">>
  /\ essd_out[1].value
       = <<"b", " ", "a", ",", " ", "a", ".", "-", "b", ".", " ", "a", "-", "b", ".">>

ParsedPersonOf(string) == parse_person_string(string).value[1]

BeforeBracket(string) ==
  IF HasAny(string, {"["}) THEN Slice(string, 1, FirstIn(string, 1, {"["}) - 2) ELSE string

----------------------------------------------------------------------------
(* Claims about interpolate_depth_timeseries *)

Interpolated == ts_out # <<>> /\ ts_out[1].kind = "return"
Profiles == ts_out[1].value.profile
Measurements == ts_out[1].value.measurement

\* C26 as stated: in the result of interpolate_depth_timeseries the profile ids are
\* 1..k consecutive, every measurement's profile_id is the id of a returned profile,
\* and every returned profile has at least one measurement.
C26_ProfileIdsRenumbered ==
  Interpolated =>
    /\ \A k \in 1..Len(Profiles) : Profiles[k].id = k
    /\ \A m \in 1..Len(Measurements) :
         \E k \in 1..Len(Profiles) : Profiles[k].id = Measurements[m].profile_id
    /\ \A k \in 1..Len(Profiles) :
         \E m \in 1..Len(Measurements) : Measurements[m].profile_id = Profiles[k].id

----------------------------------------------------------------------------
(* Claims about build_subset_from_selection *)

SubsetBuilt == sub_out # <<>>
Subset == sub_out[1].value
\* the rows of a table
RowsOf(df) == {df[i] : i \in 1..Len(df)}
\* the rows of table key that the caller selected
SelectedRows(key) ==
  IF sub_masks[key] = <<>> THEN {} ELSE {sub_dfs[key][i] : i \in sub_masks[key][1]}
EmptySelection == \A key \in DOMAIN sub_dfs : SelectedRows(key) = {}

\* C27: the subset returned by build_subset_from_selection holds every selected row
\* and is closed under references: the profile of every included measurement, the
\* borehole of every included profile, every profile and measurement of a selected
\* borehole, and every source that is the source_id of an included borehole or
\* profile are included; an empty selection raises an error.
C27_SubsetClosed ==
  SubsetBuilt =>
    IF EmptySelection THEN sub_out[1].kind = "error"
    ELSE /\ sub_out[1].kind = "return"
         /\ \A key \in DOMAIN sub_dfs :
              SelectedRows(key) \subseteq RowsOf(Subset[key]) /\ RowsOf(Subset[key]) \subseteq RowsOf(sub_dfs[key])
         /\ \A m \in RowsOf(Subset.measurement) : \A p \in RowsOf(sub_dfs.profile) :
              (p.borehole_id = m.borehole_id /\ p.id = m.profile_id)
                => p \in RowsOf(Subset.profile)
         /\ \A p \in RowsOf(Subset.profile) : \A b \in RowsOf(sub_dfs.borehole) :
              b.id = p.borehole_id => b \in RowsOf(Subset.borehole)
         /\ \A b \in SelectedRows("borehole") :
              /\ \A p \in RowsOf(sub_dfs.profile) :
                   p.borehole_id = b.id => p \in RowsOf(Subset.profile)
              /\ \A m \in RowsOf(sub_dfs.measurement) :
                   m.borehole_id = b.id => m \in RowsOf(Subset.measurement)
         /\ \A r \in RowsOf(Subset.borehole) \cup RowsOf(Subset.profile) :
              \A s \in RowsOf(sub_dfs.source) :
                s.id = r.source_id => s \in RowsOf(Subset.source)

\* one measurement was selected and nothing else: its profile, that profile's
\* borehole and their two sources were added
C27_Witness ==
  /\ SubsetBuilt /\ sub_out[1].kind = "return"
  /\ SelectedRows("measurement") = {MeasurementRow(1, 2, 1)}
  /\ \A key \in {"borehole", "profile", "source"} : SelectedRows(key) = {}
  /\ Subset.profile = <<ProfileRow(1, 2, "s1", {"s3"})>>
  /\ Subset.borehole = <<BoreholeRow(1, "s1", {"s2"})>>
  /\ Len(Subset.source) >= 1

----------------------------------------------------------------------------
(* Claims about the Zenodo operations *)

DraftCalledWith(fn) == zen_call # <<>> /\ zen_call[1].fn = fn
\* the last call was made with a record whose is_draft is false or missing
NotADraft == zen_call # <<>> /\ zen_call[1].record.is_draft \in {"false", "missing"}

\* C28: clear_draft, edit_draft, add_file_to_draft and reserve_draft_doi check that
\* the record is a draft before anything else: called with a record whose is_draft
\* is false or missing, the call raises without a request and the server is as
\* before; no sequence of these calls changes the published record.
C28_OnlyDraftsAreModified ==
  /\ [](NotADraft =>
          /\ zen_call[1].kind = "error"
          /\ zen_call[1].error = "Record is not a draft."
          /\ zen_call[1].requests = <<>>)
  /\ [][/\ zen_server'.published = zen_server.published
        /\ (zen_call' # <<>> /\ zen_call'[1].record.is_draft \in {"false", "missing"})
             => zen_server' = zen_server]_vars

\* after the draft was changed, clear_draft was called with the published record
\* and raised without a request
C28_Witness ==
  /\ DraftCalledWith("clear_draft") /\ NotADraft
  /\ zen_call[1].record.id = "published" /\ zen_call[1].record.is_draft = "false"
  /\ zen_call[1].kind = "error" /\ zen_call[1].requests = <<>>
  /\ zen_server.draft[1].metadata = "new"
  /\ zen_server.draft[1].files = {"old.zip", "glenglat.zip"}
  /\ zen_server.draft[1].doi = <<DraftDoi>>

\* s is the beginning of t
IsPrefix(s, t) == Len(s) <= Len(t) /\ \A i \in 1..Len(s) : s[i] = t[i]

\* the calls of a complete run, in order, for a new record and for a new version
CallOrders(sandbox) ==
  {(IF sandbox THEN <<>> ELSE <<"is_repo_publishable">>) \o <<"find_record">> \o drafting
     \o <<"edit_draft", "reserve_draft_doi", "build_for_zenodo", "add_file_to_draft">> :
     drafting \in {<<"create_draft">>, <<"create_or_get_new_version_draft", "clear_draft">>}}

Running == zen_pc \notin {"idle", "calls"}
VersionExists == zen_run.error = <<"A record for this version already exists">>

\* C29: publish_to_zenodo makes its calls in a fixed order: (in production) the
\* repository check, the record search, the draft creation (or the new-version draft
\* and its clearing), the metadata edit, the DOI reservation, the build of the
\* archive with the reserved DOI, the file upload.  A call that raises is the last
\* one.  When the record found has the package's version the run ends before a
\* draft is created, cleared or edited.  In production no request is issued unless
\* the repository check passed.
C29_PublishOrder ==
  /\ [](Running =>
          /\ \E order \in CallOrders(zen_run.sandbox) : IsPrefix(zen_run.calls, order)
          /\ zen_pc = "done" => zen_run.calls \in CallOrders(zen_run.sandbox)
          /\ zen_run.error # <<>> <=> zen_pc = "failed"
          /\ VersionExists =>
               /\ zen_run.calls[Len(zen_run.calls)] = "find_record"
               /\ Len(zen_run.requests) = 1 /\ zen_run.draft = <<>>
          /\ (~zen_run.sandbox /\ zen_run.requests # <<>>) =>
               /\ zen_run.calls[1] = "is_repo_publishable"
               /\ zen_run.repo = [branch |-> "main", dirty |-> FALSE, pytest |-> TRUE,
                                  frictionless |-> TRUE, tag_in_use |-> FALSE]
          /\ zen_run.archive # <<>> =>
               /\ zen_server.draft[1].doi # <<>>
               /\ zen_run.archive[1].doi = <<"https://doi.org/", zen_server.draft[1].doi[1]>>)
  /\ [][/\ zen_pc \notin {"failed", "done"}
        /\ zen_pc' = "failed" => zen_server'.published = zen_server.published
        /\ IsPrefix(zen_run.calls, zen_run'.calls) /\ IsPrefix(zen_run.requests, zen_run'.requests)
        /\ Len(zen_run'.calls) <= Len(zen_run.calls) + 1]_vars

\* a production run for a new version went through every call, and deleted a file
\* of the draft while clearing it
C29_Witness ==
  /\ zen_pc = "done" /\ ~zen_run.sandbox
  /\ zen_run.calls = <<"is_repo_publishable", "find_record", "create_or_get_new_version_draft",
                       "clear_draft", "edit_draft", "reserve_draft_doi", "build_for_zenodo",
                       "add_file_to_draft">>
  /\ \E i \in 1..Len(zen_run.requests) : zen_run.requests[i].method = "DELETE"
  /\ zen_server.draft[1] = ZenRecord("", {"glenglat.zip"}, "new", <<DraftDoi>>)

----------------------------------------------------------------------------
(* Claims about ORCID adoption across calls *)

\* the entry that the remembered call matched
MatchesOfMemo ==
  MatchIndices(Registry, memo[1].args.title, memo[1].args.orcid, memo[1].args.email)

\* the remembered call adopted its ORCID for the one entry it matched, which has none
MemoAdopted ==
  /\ memo # <<>> /\ memo[1].args.orcid # None
  /\ Cardinality(MatchesOfMemo) = 1
  /\ \A i \in MatchesOfMemo : Registry[i].orcid = None
  /\ memo[1].outcome.kind = "return"

\* the last call matched the entry of the remembered call, and no other
SameEntryAgain == Called /\ MemoAdopted /\ MatchesOfCall = MatchesOfMemo

\* C30: an ORCID adopted by find_person is not stored: after a call that adopted
\* the caller's ORCID for an entry without one, a lookup of the same entry without
\* ORCID returns orcid None, and a lookup of the same entry with another ORCID
\* returns that other ORCID, adopted and printed, not an ORCID mismatch.
C30_AdoptionNotPersisted ==
  SameEntryAgain =>
    /\ memo[1].outcome.result[1].orcid = memo[1].args.orcid
    /\ outcome[1].kind = "return"
    /\ Len(outcome[1].result) = 1
    /\ Args.orcid = None =>
         outcome[1].result[1].orcid = None /\ printed = <<>>
    /\ Args.orcid # None =>
         /\ outcome[1].result[1].orcid = Args.orcid
         /\ printed = <<[event |-> "ORCID missing", orcid |-> Args.orcid]>>

\* after an adoption, the same entry was reached by title with another ORCID, which
\* was adopted in turn
C30_Witness ==
  /\ SameEntryAgain /\ memo[1].between
  /\ Args.orcid \notin {None, memo[1].args.orcid}
  /\ Args.title # None /\ Args.email = None
  /\ outcome[1].kind = "return" /\ outcome[1].result[1].orcid = Args.orcid
  /\ printed # <<>>

====
